---- MODULE Spec2Model ----
(***************************************************************************)
(* Model of the signal-driven trading loops of WeBullRobotTrading:        *)
(*   - the signal source   check_signal        (utils.py, trading.py)     *)
(*   - the ETH futures loop trading_crypto.py  (FIFO queue of lots)       *)
(*   - the equities loop    trading.py         (set of active symbols)    *)
(*                                                                         *)
(* Units.  Money and prices are integers in cents, ETH sizes are integers *)
(* in units of 0.0001 ETH (the quantum of size_eth), so that the Decimal  *)
(* quantize() calls of the source become integer divisions.               *)
(*                                                                         *)
(* One loop iteration (signal fetch, admission, order, ledger update,     *)
(* notifications) is one atomic action; the outcomes of the calls it      *)
(* makes on the gateway, the mailbox and the notification channel are     *)
(* chosen nondeterministically.  The record `it` describes the iteration  *)
(* that ran last: the calls it made, the orders it submitted and the      *)
(* notifications it attempted.                                            *)
(***************************************************************************)
EXTENDS Integers, Sequences, FiniteSets, TLC

\* ------------------------------------------------------------ program constants
NUM_PARTS == 10
LEVERAGE == 20
MIN_SIZE == 10
MAX_CONCURRENT_SYMBOLS == 9
INITIAL_CASH == 2500000
MAX_MESSAGES == 10
\* hyperliquid_btc_trading.py
BTC_LEVERAGE == 10
BTC_MIN_SIZE == 10

\* ------------------------------------------------------------ bounds of the model
\* Messages that arrive in the mailbox over one run of a trading loop.
MaxMsgs == 11
\* Messages that arrive over one run of the equities loop.
MaxEqMsgs == 6
\* Messages that arrive over one run of a caller that only polls.
MaxSigMsgs == 3
\* The largest free balance calculate_trade_size is called with, in cents.
MaxBalance == 40
\* Messages that arrive over one run of the ETH loop, and of the equities
\* loop, when the broker keeps a book.
MaxBookMsgs == 6
MaxEqBookMsgs == 3
\* Largest mid price given to a direct call of the price functions.
MaxPrice == 300

SYMBOL == "ETH"
BTC_SYMBOL == "BTC"
ROBOT_NAME == "Robot"
None == "None"

VARIABLES
    prog,                       \* the entry point that runs: "eth", "equities", ...
    running,                    \* "running" | "stopped" (main returned) | "crashed"
    inbox,                      \* what process_messages()[::-1] yields: oldest first
    nextId,                     \* id of the next message to arrive
    processed_gmail_message,    \* utils.py:5 / trading.py:24
    delivered,                  \* history: id -> number of times check_signal returned it
    trade_queue,                \* trading_crypto.py:59
    tick_size,                  \* trading_crypto.py:251-258
    active_trading_symbols,     \* trading.py:25
    initial_cash,               \* trading.py:26
    SHORT_ENABLED,              \* trading.py:20, read once at start
    it,                         \* the last iteration
    free_balance,               \* argument of a direct call of calculate_trade_size
    allocation,                 \* <<its result>>, <<>> before the call
    market_price,               \* the mid price given to a direct call of the price functions
    env,                        \* the environment: [gateway, channel], fixed at the start
    broker,                     \* the broker's book: symbol -> position (kept when env.gateway = "book")
    cash_read,                  \* history: initial_cash holds a balance read from the account
    resting                     \* the exchange's book: the trigger orders resting on it (kept when env.gateway = "book")

vars == <<prog, running, inbox, nextId, processed_gmail_message, delivered,
          trade_queue, tick_size, active_trading_symbols, initial_cash,
          SHORT_ENABLED, it, free_balance, allocation, market_price, env, broker,
          cash_read, resting>>

ghostVars == <<env, broker, cash_read, resting>>

fnVars == <<free_balance, allocation, market_price>>

ethVars == <<trade_queue, tick_size>>
eqVars == <<active_trading_symbols, initial_cash, SHORT_ENABLED>>

\* ------------------------------------------------------------ text of a message
\* A body is the sequence of the words of the message.  str.lower() and
\* str.upper() are tables over the words that occur.
Lower(w) ==
    CASE w = "Robot" -> "robot"
      [] w = "Alice" -> "alice"
      [] w = "Bought" -> "bought"
      [] w = "ETH.X" -> "eth.x"
      [] w = "BTC.X" -> "btc.x"
      [] w = "TSM" -> "tsm"
      [] w = "NVDS" -> "nvds"
      [] w = "DUG" -> "dug"
      [] w = "NVDA" -> "nvda"
      [] w = "AMD" -> "amd"
      [] w = "F" -> "f"
      [] w = "GE" -> "ge"
      [] w = "GM" -> "gm"
      [] w = "HP" -> "hp"
      [] w = "IBM" -> "ibm"
      [] OTHER -> w

Upper(w) ==
    CASE w = "eth.x" -> "ETH.X"
      [] w = "btc.x" -> "BTC.X"
      [] w = "tsm" -> "TSM"
      [] w = "nvds" -> "NVDS"
      [] w = "dug" -> "DUG"
      [] w = "nvda" -> "NVDA"
      [] w = "amd" -> "AMD"
      [] w = "f" -> "F"
      [] w = "ge" -> "GE"
      [] w = "gm" -> "GM"
      [] w = "hp" -> "HP"
      [] w = "ibm" -> "IBM"
      [] w = "shares" -> "SHARES"
      [] w = "at" -> "AT"
      [] w = "hello" -> "HELLO"
      [] OTHER -> w

LowerAll(body) == [i \in 1..Len(body) |-> Lower(body[i])]

\* `key in message` is a substring test on the text: a word that merely
\* contains the key satisfies it.
SubstringOf(key, w) ==
    \/ w = key
    \/ key = "at" /\ w \in {"that", "rate"}
    \/ key = "bought" /\ w = "rebought"

InText(key, words) == \E i \in 1..Len(words) : SubstringOf(key, words[i])

\* A phrase of several words occurs where its words follow one another.
PhraseIn(phrase, words) ==
    \E i \in 1..Len(words) :
        /\ i + Len(phrase) - 1 <= Len(words)
        /\ \A j \in 1..Len(phrase) : words[i + j - 1] = phrase[j]

FirstIndex(word, words) ==
    IF \E i \in 1..Len(words) : words[i] = word
    THEN CHOOSE i \in 1..Len(words) :
            /\ words[i] = word
            /\ \A j \in 1..(i - 1) : words[j] # word
    ELSE 0

\* The keyword loop of one branch: the first word equal to `keyword` decides;
\* words[i + 2] is the symbol, and raises IndexError when it does not exist.
\* With no word equal to the keyword the loop ends and the message is only
\* marked as processed.
ExtractAfter(signal, keyword, words) ==
    LET i == FirstIndex(keyword, words) IN
    IF i = 0 THEN [kind |-> "nosignal"]
    ELSE IF i + 2 > Len(words) THEN [kind |-> "raise"]
    ELSE [kind |-> "signal", sig |-> signal, sym |-> Upper(words[i + 2])]

\* The if / elif chain on the lowered body of a robot message.
ParseMessage(body) ==
    LET message == LowerAll(body) IN
    IF InText("bought", message) /\ InText("at", message)
    THEN ExtractAfter("BUY", "bought", message)
    ELSE IF PhraseIn(<<"sold", "to", "close">>, message) /\ InText("at", message)
    THEN ExtractAfter("SELL", "close", message)
    ELSE IF InText("shorted", message) /\ InText("at", message)
    THEN ExtractAfter("SHORT", "shorted", message)
    ELSE IF PhraseIn(<<"covered", "to", "close">>, message) /\ InText("at", message)
    THEN ExtractAfter("COVER", "close", message)
    ELSE [kind |-> "nosignal"]

\* robot_name in cleaned_body: tested on the body as received, before lower().
RobotIn(body) == \E i \in 1..Len(body) : body[i] = ROBOT_NAME

\* The test of a message against the set of processed ids.
\* Faulty variant: the processed set is never consulted.
AlreadyProcessed_never(msg, processed) == FALSE

AlreadyProcessed(msg, processed) == msg.id \in processed

\* The for loop of check_signal over the fetched messages, oldest first.
\* Returns what check_signal returns (or that it raised) and the set of
\* processed ids it leaves behind.
RECURSIVE ScanMessages(_, _)
ScanMessages(messages, processed) ==
    IF messages = <<>>
    THEN [kind |-> "none", sig |-> None, sym |-> None, id |-> 0, processed |-> processed]
    ELSE LET msg == Head(messages) IN
         IF AlreadyProcessed(msg, processed)
         THEN ScanMessages(Tail(messages), processed)
         ELSE IF ~RobotIn(msg.body)
         THEN ScanMessages(Tail(messages), processed)
         ELSE LET r == ParseMessage(msg.body) IN
              CASE r.kind = "signal" ->
                     [kind |-> "signal", sig |-> r.sig, sym |-> r.sym, id |-> msg.id,
                      processed |-> processed \cup {msg.id}]
                [] r.kind = "raise" ->
                     [kind |-> "raise", sig |-> None, sym |-> None, id |-> msg.id,
                      processed |-> processed]
                [] OTHER ->
                     ScanMessages(Tail(messages), processed \cup {msg.id})

check_signal(messages, processed) == ScanMessages(messages, processed)


\* ------------------------------------------------------------ the environment
Msg(id, body) == [id |-> id, body |-> body]

BuyBody(sym) == <<"Robot", "bought", "10", sym, "shares", "at", "5">>
SellBody(sym) == <<"Robot", "sold", "to", "close", "10", sym, "shares", "at", "5">>
ShortBody(sym) == <<"Robot", "shorted", "10", sym, "shares", "at", "5">>
CoverBody(sym) == <<"Robot", "covered", "to", "close", "10", sym, "shares", "at", "5">>

\* Messages the ETH loop is fed: signals for its asset and for another one.
EthBodies ==
    {BuyBody("ETH.X"), SellBody("ETH.X"), BuyBody("BTC.X"), ShortBody("ETH.X")}

\* Messages the equities loop is fed.
\* The loop has no code that depends on which symbol a signal names, so the
\* symbols are fed in a fixed order: the symbols held at the start are closed
\* first to last, new symbols are opened first to last and closed last to
\* first.  Any other order reaches the same states up to a renaming of symbols.
InitialSymbols == <<"TSM", "NVDS", "DUG", "NVDA">>
NewSymbols == <<"AMD", "F", "GE", "GM", "HP", "IBM">>

\* The first (last) element of seq that is in S, as a set of at most one
\* element.
FirstIn(seq, S) ==
    {seq[i] : i \in {i \in 1..Len(seq) :
                        seq[i] \in S /\ \A j \in 1..(i - 1) : seq[j] \notin S}}
LastIn(seq, S) ==
    {seq[i] : i \in {i \in 1..Len(seq) :
                        seq[i] \in S /\ \A j \in (i + 1)..Len(seq) : seq[j] \notin S}}

Range(seq) == {seq[i] : i \in 1..Len(seq)}

EqBodies(active) ==
    LET nextNew == FirstIn(NewSymbols, Range(NewSymbols) \ active)
        lastNew == LastIn(NewSymbols, active)
        firstInitial == FirstIn(InitialSymbols, active)
        lastGone == LastIn(InitialSymbols, Range(InitialSymbols) \ active)
    IN  {BuyBody(x) : x \in nextNew \cup lastNew}
        \cup {ShortBody(x) : x \in nextNew}
        \cup {SellBody(x) : x \in firstInitial \cup lastNew \cup lastGone}
        \cup {CoverBody(x) : x \in firstInitial \cup lastNew \cup nextNew}

\* account.cash, in cents.
Balances == {0, 5000, 25000, 2000000}
\* The latest quote, in cents.
EqPrices == {10000}
\* position.qty, in thousandths of a share: short, none, a fraction below the
\* minimum order quantity, long.
Positions == {0 - 10000, 0, 5, 10000}
\* len(trading_client.get_orders())
OpenOrders == {0, 1}

\* initial_cash is None or a number: the empty or the one-element sequence.
NoCash == <<>>

LoopBodies(p, active) == IF p = "eth" THEN EthBodies ELSE EqBodies(active)

\* info.user_state()["withdrawable"], in cents.
AccountValues == {100, 10000}
\* info.all_mids()["ETH"], in cents.
Prices == {200000, 250000000}
\* tickSize of the asset metadata, in cents; Decimal("1") when it is missing.
TickSizes == {100}

Raised == [raised |-> TRUE]
Returned(v) == [raised |-> FALSE, v |-> v]
CallResults(S) == {Raised} \cup {Returned(v) : v \in S}

\* The environment.  gateway "any": positions are whatever the broker
\* reports (other parties trade); "book": only the loop trades, an accepted
\* order fills in full and the broker reports the position the accepted
\* orders add up to.  channel "may_fail": send_notification may raise;
\* "reliable": it returns.
Environment(gateway, channel) == [gateway |-> gateway, channel |-> channel]

\* What get_open_position(symbol).qty can be.
PositionReads(sym) ==
    CallResults(IF env.gateway = "book" THEN {broker[sym]} ELSE Positions)

\* Whether a call of send_notification returns (TRUE) or raises (FALSE).
NoteResults == IF env.channel = "reliable" THEN {TRUE} ELSE BOOLEAN

\* What exchange.order() can do: raise (network error, timeout), answer with a
\* top-level status other than "ok", answer "ok" with an error among the
\* statuses, or answer "ok" without one.
OrderResults == {"raise", "not_ok", "status_error", "ok"}

\* One call of send_notification: the title, the priority, and whether
\* requests.post returned (TRUE) or raised (FALSE).
Note(title, priority, ok) == [title |-> title, priority |-> priority, ok |-> ok]

\* One read call on the gateway, and whether it raised.
Call(name, result) == [call |-> name, raised |-> result.raised]

\* ------------------------------------------------------------ arithmetic
\* floor(a * num / den) for a >= 0, without leaving 32 bits.
MulDivFloor(a, num, den) == (a \div den) * num + ((a % den) * num) \div den

\* ceil(a * num / den) for a >= 0.
MulDivCeil(a, num, den) ==
    MulDivFloor(a, num, den) + (IF ((a % den) * num) % den = 0 THEN 0 ELSE 1)

\* Decimal.quantize(..., rounding=ROUND_DOWN) of a / b (b > 0): truncation
\* towards zero.
QuantizeDown(a, b) == IF a >= 0 THEN a \div b ELSE 0 - ((0 - a) \div b)

\* ------------------------------------------------------------ trading_crypto.py
\* Faulty variant: the open lots are not counted.
calculate_trade_size_equal_parts(account_value, queue) ==
    IF NUM_PARTS - Len(queue) <= 0 THEN 0
    ELSE QuantizeDown(account_value, NUM_PARTS)

\* Faulty variant: the quotient is rounded up.
calculate_trade_size_round_up(account_value, queue) ==
    LET remaining_slots == NUM_PARTS - Len(queue) IN
    IF remaining_slots <= 0 THEN 0
    ELSE MulDivCeil(account_value, 1, remaining_slots)

calculate_trade_size(account_value, queue) ==
    LET remaining_slots == NUM_PARTS - Len(queue) IN
    IF remaining_slots <= 0 THEN 0
    ELSE QuantizeDown(account_value, remaining_slots)

\* Faulty variant: the rounding mode is ignored, the price is always rounded
\* down.
round_to_tick_size_always_down(price, num, den, tick, rounding) ==
    MulDivFloor(price, num, den * tick) * tick

\* round_to_tick_size of price * num / den, rounding down or up.
round_to_tick_size(price, num, den, tick, rounding) ==
    IF rounding = "ROUND_DOWN"
    THEN MulDivFloor(price, num, den * tick) * tick
    ELSE MulDivCeil(price, num, den * tick) * tick

Lot(price, size) == [entry_price |-> price, size_eth |-> size]

\* (entry_price, size_eth) in trade_queue: equality of the tuples' values.
InQueue(lot, queue) == \E i \in 1..Len(queue) : queue[i] = lot

\* Faulty variant: the size is rounded to the nearest 0.0001 ETH.
SizeEth_nearest(size_usd, price) ==
    MulDivFloor(2 * size_usd * LEVERAGE * 10000 + price, 1, 2 * price)

\* size_eth of open_long: size_usd * LEVERAGE / price, cut to 0.0001 ETH.
SizeEth(size_usd, price) == MulDivFloor(size_usd * LEVERAGE, 10000, price)

\* One order submitted to the gateway (exchange.order, submit_order) and what
\* the gateway did with it.
Order(symbol, side, qty, limit, result) ==
    [symbol |-> symbol, side |-> side, qty |-> qty, limit |-> limit, result |-> result]

\* What one call of open_long / close_oldest_position did: the queue it leaves,
\* the gateway calls and orders it made, the notifications it attempted,
\* whether the gateway accepted the order, and whether an exception left it.
HandlerResult(queue, calls, orders, notes, accepted, exc) ==
    [queue |-> queue, calls |-> calls, orders |-> orders, notes |-> notes,
     accepted |-> accepted, exc |-> exc]

\* The except clause of open_long: one notification of priority 1; when it
\* raises, the exception leaves open_long.
OpenLongExcept(queue, calls, orders, notes, accepted, errNoteOk) ==
    HandlerResult(queue, calls, orders,
                  Append(notes, Note("ERROR opening long", 1, errNoteOk)),
                  accepted, ~errNoteOk)

\* Faulty variant: the lot is appended when the order is submitted, before its
\* response is examined.
open_long_append_first(queue, size_usd, tick, price, order, noteOk, errNoteOk) ==
    LET calls == <<Call("all_mids", price)>> IN
    IF price.raised
    THEN OpenLongExcept(queue, calls, <<>>, <<>>, FALSE, errNoteOk)
    ELSE
    LET size_eth == SizeEth(size_usd, price.v)
        limit_price == round_to_tick_size(price.v, 105, 100, tick, "ROUND_UP")
        sent == <<Order(SYMBOL, "BUY", size_eth, limit_price, order)>>
        appended == Append(queue, Lot(price.v, size_eth))
    IN
    IF size_eth < MIN_SIZE
    THEN OpenLongExcept(queue, calls, <<>>, <<>>, FALSE, errNoteOk)
    ELSE IF order # "ok"
    THEN OpenLongExcept(appended, calls, sent, <<>>, FALSE, errNoteOk)
    ELSE IF noteOk
    THEN HandlerResult(appended, calls, sent, <<Note("BUY", 0, TRUE)>>, TRUE, FALSE)
    ELSE OpenLongExcept(appended, calls, sent, <<Note("BUY", 0, FALSE)>>, TRUE,
                        errNoteOk)

\* Faulty variant: the order size is not compared with the minimum.
open_long_no_minimum(queue, size_usd, tick, price, order, noteOk, errNoteOk) ==
    LET calls == <<Call("all_mids", price)>> IN
    IF price.raised
    THEN OpenLongExcept(queue, calls, <<>>, <<>>, FALSE, errNoteOk)
    ELSE
    LET size_eth == SizeEth(size_usd, price.v)
        limit_price == round_to_tick_size(price.v, 105, 100, tick, "ROUND_UP")
        sent == <<Order(SYMBOL, "BUY", size_eth, limit_price, order)>>
    IN
    IF order # "ok"
    THEN OpenLongExcept(queue, calls, sent, <<>>, FALSE, errNoteOk)
    ELSE LET appended == Append(queue, Lot(price.v, size_eth)) IN
         IF noteOk
         THEN HandlerResult(appended, calls, sent, <<Note("BUY", 0, TRUE)>>, TRUE, FALSE)
         ELSE OpenLongExcept(appended, calls, sent, <<Note("BUY", 0, FALSE)>>, TRUE,
                             errNoteOk)

open_long(queue, size_usd, tick, price, order, noteOk, errNoteOk) ==
    LET calls == <<Call("all_mids", price)>> IN
    IF price.raised
    THEN OpenLongExcept(queue, calls, <<>>, <<>>, FALSE, errNoteOk)
    ELSE
    LET size_eth == SizeEth(size_usd, price.v)
        limit_price == round_to_tick_size(price.v, 105, 100, tick, "ROUND_UP")
        sent == <<Order(SYMBOL, "BUY", size_eth, limit_price, order)>>
    IN
    IF size_eth < MIN_SIZE
    THEN OpenLongExcept(queue, calls, <<>>, <<>>, FALSE, errNoteOk)
    ELSE IF order # "ok"
    THEN OpenLongExcept(queue, calls, sent, <<>>, FALSE, errNoteOk)
    ELSE LET appended == Append(queue, Lot(price.v, size_eth)) IN
         IF noteOk
         THEN HandlerResult(appended, calls, sent, <<Note("BUY", 0, TRUE)>>, TRUE, FALSE)
         ELSE OpenLongExcept(appended, calls, sent, <<Note("BUY", 0, FALSE)>>, TRUE,
                             errNoteOk)

\* The lot put back by the except clause of close_oldest_position: at the
\* front, unless an equal tuple is in the queue.
Requeue(lot, queue) == IF InQueue(lot, queue) THEN queue ELSE <<lot>> \o queue

\* The except clause of close_oldest_position: the notification comes first;
\* the lot is put back only when the notification returned.
CloseExcept(queue, lot, calls, orders, notes, accepted, errNoteOk) ==
    HandlerResult(
        IF errNoteOk THEN Requeue(lot, queue) ELSE queue,
        calls, orders,
        Append(notes, Note("ERROR closing position", 1, errNoteOk)),
        accepted, ~errNoteOk)

\* close_oldest_position on a queue that is not empty.
close_oldest_position(queue, tick, price, order, noteOk, errNoteOk) ==
    LET lot == Head(queue)
        popped == Tail(queue)
        calls == <<Call("all_mids", price)>>
    IN
    IF price.raised
    THEN CloseExcept(popped, lot, calls, <<>>, <<>>, FALSE, errNoteOk)
    ELSE
    LET limit_price == round_to_tick_size(price.v, 95, 100, tick, "ROUND_DOWN")
        sent == <<Order(SYMBOL, "SELL", lot.size_eth, limit_price, order)>>
    IN
    CASE order = "raise" ->
           CloseExcept(popped, lot, calls, sent, <<>>, FALSE, errNoteOk)
      [] order \in {"not_ok", "status_error"} ->
           \* appendleft before the raise
           CloseExcept(<<lot>> \o popped, lot, calls, sent, <<>>, FALSE, errNoteOk)
      [] OTHER ->
           IF noteOk
           THEN HandlerResult(popped, calls, sent, <<Note("SELL", 0, TRUE)>>, TRUE, FALSE)
           ELSE CloseExcept(popped, lot, calls, sent, <<Note("SELL", 0, FALSE)>>, TRUE,
                            errNoteOk)

\* ------------------------------------------------------------ state machine
\* exc: "no" when the body of the iteration ended normally, "caught" when an
\* exception was caught inside the while loop, "ended" when it left the loop.
\* seen: the values the gateway returned that the iteration acted on.
Iteration(sig, sym, id, outcome, calls, seen, orders, notes, exc) ==
    [sig |-> sig, sym |-> sym, id |-> id, outcome |-> outcome, calls |-> calls,
     seen |-> seen, orders |-> orders, notes |-> notes, exc |-> exc]

\* balance and price: the cash and the quote read for an opening signal;
\* position: the position read at the admission of a closing signal.
\* open_orders: the number of open orders the gateway reported.
Seen(balance, price, position, open_orders) ==
    [balance |-> balance, price |-> price, position |-> position,
     open_orders |-> open_orders]

Unseen == Seen(0, 0, 0, 0)

NoIteration == Iteration(None, None, 0, "start", <<>>, Unseen, <<>>, <<>>, "no")

\* ---- the broker's book, as the accepted orders make it
Symbols == Range(InitialSymbols) \cup Range(NewSymbols) \cup {SYMBOL}

\* At the start the broker holds ten shares of each symbol of the ledger and
\* no ETH.
StartPosition(sym) == IF sym \in Range(InitialSymbols) THEN 10000 ELSE 0

NoBroker == [sym \in Symbols |-> 0]

\* An order the gateway accepted fills in full; any other order not at all.
Fill(book, order) ==
    IF order.result # "ok" THEN book
    ELSE [book EXCEPT ![order.symbol] =
             IF order.side = "BUY" THEN @ + order.qty ELSE @ - order.qty]

RECURSIVE ApplyOrders(_, _)
ApplyOrders(book, orders) ==
    IF orders = <<>> THEN book
    ELSE ApplyOrders(Fill(book, Head(orders)), Tail(orders))

\* The book after an iteration.
Record(orders) ==
    broker' = IF env.gateway = "book" THEN ApplyOrders(broker, orders) ELSE NoBroker

InitGhost ==
    /\ broker = IF env.gateway = "book"
               THEN [sym \in Symbols |-> StartPosition(sym)] ELSE NoBroker
    /\ cash_read = FALSE
    /\ resting = {}

InitCommon ==
    /\ running = "running"
    /\ inbox = <<>>
    /\ nextId = 1
    /\ processed_gmail_message = {}
    /\ delivered = [i \in {} |-> 0]
    /\ trade_queue = <<>>
    /\ active_trading_symbols = {"TSM", "NVDS", "DUG", "NVDA"}
    /\ initial_cash = <<INITIAL_CASH>>
    /\ it = NoIteration

\* The loops: the state after the module-level statements of the script.
Init ==
    /\ InitCommon
    /\ prog \in {"eth", "equities", "poll"}
    /\ tick_size \in TickSizes
    /\ SHORT_ENABLED \in (IF prog = "equities" THEN BOOLEAN ELSE {TRUE})
    /\ free_balance = 0
    /\ market_price = 0
    /\ allocation = <<>>
    /\ env = Environment("any", "may_fail")
    /\ InitGhost

\* The loops in an environment where only the loop trades and the broker
\* reports the position the accepted orders add up to.
InitBook ==
    /\ InitCommon
    /\ prog \in {"eth", "equities"}
    /\ tick_size \in TickSizes
    /\ SHORT_ENABLED \in (IF prog = "equities" THEN BOOLEAN ELSE {TRUE})
    /\ free_balance = 0
    /\ market_price = 0
    /\ allocation = <<>>
    /\ env \in {Environment("book", channel) : channel \in {"may_fail", "reliable"}}
    /\ InitGhost

\* A message arrives in the fetched window.  In the trading loops the window
\* holds one message at a time.
Arrive ==
    /\ prog \in {"eth", "equities"}
    /\ running = "running"
    /\ inbox = <<>>
    /\ nextId <= (IF env.gateway = "book"
                  THEN (IF prog = "eth" THEN MaxBookMsgs ELSE MaxEqBookMsgs)
                  ELSE (IF prog = "eth" THEN MaxMsgs ELSE MaxEqMsgs))
    /\ \E body \in LoopBodies(prog, active_trading_symbols) : inbox' = <<Msg(nextId, body)>>
    /\ nextId' = nextId + 1
    /\ it' = NoIteration
    /\ UNCHANGED <<prog, running, processed_gmail_message, delivered, ethVars, eqVars,
                   fnVars, ghostVars>>

\* The oldest message leaves the window (it is older than two minutes); the
\* loops poll far more often than that, so it has been seen by then.
Expire ==
    /\ prog \in {"eth", "equities"}
    /\ inbox # <<>>
    /\ Head(inbox).id \in processed_gmail_message
    /\ inbox' = Tail(inbox)
    /\ it' = NoIteration
    /\ UNCHANGED <<prog, running, nextId, processed_gmail_message, delivered, ethVars,
                   eqVars, fnVars, ghostVars>>

\* check_signal() as called by the loop, and its effect on the source's state.
\* The call process_messages() names no label although the definition in
\* gmail_reader.py requires one; the call is taken to return the messages of
\* the window, or to raise (the actions that poll draw `fetched`).
Polled == check_signal(inbox, processed_gmail_message)

Count(f, id) == IF id \in DOMAIN f THEN f[id] ELSE 0

Consume(r) ==
    /\ processed_gmail_message' = r.processed
    /\ delivered' = IF r.kind = "signal"
                    THEN [i \in DOMAIN delivered \cup {r.id} |->
                            IF i = r.id THEN Count(delivered, i) + 1 ELSE delivered[i]]
                    ELSE delivered
    /\ UNCHANGED <<inbox, nextId>>

\* ---- trading_crypto.main, one iteration of the while loop
EthAsset == "ETH.X"

\* The end of an iteration of the ETH loop whose body ran the handler result h:
\* an exception that left the handler reaches the outer except clause of main,
\* which notifies with priority 2 and lets main return.
EthFinishSeen(r, outcome, h, seen, fatalNoteOk) ==
    /\ trade_queue' = h.queue
    /\ it' = Iteration(r.sig, r.sym, r.id, outcome, h.calls, seen, h.orders,
                       IF h.exc THEN Append(h.notes, Note("FATAL BOT ERROR", 2, fatalNoteOk))
                       ELSE h.notes,
                       IF h.exc THEN "ended" ELSE "no")
    /\ running' = IF ~h.exc THEN "running"
                  ELSE IF fatalNoteOk THEN "stopped" ELSE "crashed"
    /\ Record(h.orders)
    /\ UNCHANGED <<prog, tick_size, eqVars, fnVars, env, cash_read, resting>>

EthFinish(r, outcome, h, fatalNoteOk) == EthFinishSeen(r, outcome, h, Unseen, fatalNoteOk)

Quiet(queue) == HandlerResult(queue, <<>>, <<>>, <<>>, FALSE, FALSE)

\* check_signal raised (the mailbox could not be read, or a message could not
\* be parsed): logged, no notification.
EthSignalError ==
    /\ prog = "eth" /\ running = "running"
    /\ \E fetched \in BOOLEAN :
         LET r == IF fetched THEN Polled
                  ELSE [kind |-> "raise", sig |-> None, sym |-> None, id |-> 0,
                        processed |-> processed_gmail_message]
         IN /\ r.kind = "raise"
            /\ Consume(r)
            /\ EthFinish(r, "signal_error", Quiet(trade_queue), TRUE)

\* No signal, or a signal for another asset.
EthIdle ==
    /\ prog = "eth" /\ running = "running"
    /\ Polled.kind \in {"none", "signal"}
    /\ Polled.sym # EthAsset
    /\ Consume(Polled)
    /\ EthFinish(Polled, "idle", Quiet(trade_queue), TRUE)

\* A signal for the asset that is neither BUY nor SELL.
EthIgnored ==
    /\ prog = "eth" /\ running = "running"
    /\ Polled.kind = "signal" /\ Polled.sym = EthAsset
    /\ Polled.sig \notin {"BUY", "SELL"}
    /\ Consume(Polled)
    /\ EthFinish(Polled, "ignored", Quiet(trade_queue), TRUE)

CloseOutcomes(queue, tick) ==
    {close_oldest_position(queue, tick, price, order, noteOk, errNoteOk) :
        price \in CallResults(Prices), order \in OrderResults,
        noteOk \in NoteResults, errNoteOk \in NoteResults}

\* Whether the notification of the outer except clause returns: it is only
\* attempted when an exception left the handler.
FatalNoteResults(h) == IF h.exc THEN NoteResults ELSE {TRUE}

EthBuy ==
    /\ prog = "eth" /\ running = "running"
    /\ Polled.kind = "signal" /\ Polled.sym = EthAsset /\ Polled.sig = "BUY"
    /\ Consume(Polled)
    /\ IF Len(trade_queue) >= NUM_PARTS
       THEN EthFinish(Polled, "max_positions", Quiet(trade_queue), TRUE)
       ELSE \E account_value \in CallResults(AccountValues) :
              IF account_value.raised
              THEN \E fatalNoteOk \in NoteResults :
                      EthFinish(Polled, "account_error",
                                HandlerResult(trade_queue,
                                              <<Call("user_state", account_value)>>,
                                              <<>>, <<>>, FALSE, TRUE),
                                fatalNoteOk)
              ELSE LET size_usd == calculate_trade_size(account_value.v, trade_queue) IN
                   IF size_usd <= 100
                   THEN EthFinish(Polled, "too_small",
                                  HandlerResult(trade_queue,
                                                <<Call("user_state", account_value)>>,
                                                <<>>, <<>>, FALSE, FALSE),
                                  TRUE)
                   ELSE \E price \in CallResults(Prices) :
                        \E order \in OrderResults :
                        \E noteOk \in NoteResults :
                        \E errNoteOk \in NoteResults :
                          LET h == open_long(trade_queue, size_usd, tick_size, price,
                                             order, noteOk, errNoteOk)
                          IN
                          \E fatalNoteOk \in FatalNoteResults(h) :
                            EthFinishSeen(Polled,
                                          IF h.accepted THEN "opened" ELSE "open_failed",
                                          [h EXCEPT !.calls =
                                              <<Call("user_state", account_value)>> \o @],
                                          Seen(account_value.v,
                                               IF price.raised THEN 0 ELSE price.v, 0, 0),
                                          fatalNoteOk)

EthSell ==
    /\ prog = "eth" /\ running = "running"
    /\ Polled.kind = "signal" /\ Polled.sym = EthAsset /\ Polled.sig = "SELL"
    /\ Consume(Polled)
    /\ IF trade_queue = <<>>
       THEN EthFinish(Polled, "nothing_to_close", Quiet(trade_queue), TRUE)
       ELSE \E h \in CloseOutcomes(trade_queue, tick_size) :
            \E fatalNoteOk \in FatalNoteResults(h) :
              EthFinish(Polled, IF h.accepted THEN "closed" ELSE "close_failed",
                        h, fatalNoteOk)

\* ------------------------------------------------------------ trading.py
\* get_position_quantity: float(position.qty), and 0 when the call raises.
get_position_quantity(position) == IF position.raised THEN 0 ELSE position.v

\* Faulty variants of can_trade_symbol: the cap is tested with <=; the cap is
\* not tested; the ledger is not consulted for a closing signal; the position
\* is not consulted for a closing signal.
can_trade_symbol_off_by_one(symbol, signal_type, active, position_qty) ==
    IF signal_type \in {"SELL", "COVER"}
    THEN symbol \in active /\ position_qty # 0
    ELSE IF signal_type \in {"BUY", "SHORT"}
    THEN Cardinality(active) <= MAX_CONCURRENT_SYMBOLS
    ELSE FALSE

can_trade_symbol_no_cap(symbol, signal_type, active, position_qty) ==
    IF signal_type \in {"SELL", "COVER"}
    THEN symbol \in active /\ position_qty # 0
    ELSE signal_type \in {"BUY", "SHORT"}

can_trade_symbol_no_ledger(symbol, signal_type, active, position_qty) ==
    IF signal_type \in {"SELL", "COVER"}
    THEN position_qty # 0
    ELSE IF signal_type \in {"BUY", "SHORT"}
    THEN Cardinality(active) < MAX_CONCURRENT_SYMBOLS
    ELSE FALSE

can_trade_symbol_no_position(symbol, signal_type, active, position_qty) ==
    IF signal_type \in {"SELL", "COVER"}
    THEN symbol \in active
    ELSE IF signal_type \in {"BUY", "SHORT"}
    THEN Cardinality(active) < MAX_CONCURRENT_SYMBOLS
    ELSE FALSE

can_trade_symbol(symbol, signal_type, active, position_qty) ==
    IF signal_type \in {"SELL", "COVER"}
    THEN symbol \in active /\ position_qty # 0
    ELSE IF signal_type \in {"BUY", "SHORT"}
    THEN Cardinality(active) < MAX_CONCURRENT_SYMBOLS
    ELSE FALSE

\* Faulty variant: only SHORT is stopped by the toggle.
ShortingDenied_short_only(signal_type, short_enabled) ==
    signal_type = "SHORT" /\ ~short_enabled

\* The test of line 188: SHORT and COVER while shorting is disabled.
ShortingDenied(signal_type, short_enabled) ==
    signal_type \in {"SHORT", "COVER"} /\ ~short_enabled

\* The message of a denial at admission (lines 206-211): chosen by the size of
\* the ledger alone.
DenialTitle(active) ==
    IF Cardinality(active) >= MAX_CONCURRENT_SYMBOLS
    THEN "Order Rejected: maximum allowed symbols"
    ELSE "Order Rejected: no position"

\* Faulty variant: open orders are never reported as pending.
has_pending_orders_never(open_orders) == FALSE

\* has_pending_orders: False when the query raises.
has_pending_orders(open_orders) ==
    IF open_orders.raised THEN FALSE ELSE open_orders.v > 0

\* Faulty variant: the amount is not capped at the balance.
InvestQty_uncapped(cash, current_balance, current_price) ==
    QuantizeDown(cash * 99, 100 * MAX_CONCURRENT_SYMBOLS * current_price)

\* Faulty variant: the quantity is rounded up to the next whole share.
InvestQty_round_up(cash, current_balance, current_price) ==
    LET den == 100 * MAX_CONCURRENT_SYMBOLS
        scaled == IF cash * 99 <= current_balance * den
                  THEN cash * 99 ELSE current_balance * den
    IN (scaled + den * current_price - 1) \div (den * current_price)

\* qty = int(min(initial_cash * INVEST_PERCENTAGE, current_balance) / current_price)
\* with INVEST_PERCENTAGE = 0.99 / MAX_CONCURRENT_SYMBOLS, in whole shares.
InvestQty(cash, current_balance, current_price) ==
    LET den == 100 * MAX_CONCURRENT_SYMBOLS
        scaled == IF cash * 99 <= current_balance * den
                  THEN cash * 99 ELSE current_balance * den
    IN QuantizeDown(scaled, den * current_price)

\* place_us_order refuses a quantity below 0.01 shares without calling the
\* gateway.
BelowMinimumQty(qty) == qty < 10

\* The end of an iteration of the equities loop.  An exception raised in the
\* body is caught inside the while loop, which notifies with the default
\* priority 2; when that notification raises, the exception leaves main.
EqFinish(r, outcome, active, cash, calls, seen, orders, notes, raised, errNoteOk) ==
    /\ active_trading_symbols' = active
    /\ initial_cash' = cash
    /\ it' = Iteration(r.sig, r.sym, r.id, outcome, calls, seen, orders,
                       IF raised THEN Append(notes, Note("ERROR Trading", 2, errNoteOk))
                       ELSE notes,
                       IF ~raised THEN "no" ELSE IF errNoteOk THEN "caught" ELSE "ended")
    /\ running' = IF raised /\ ~errNoteOk THEN "crashed" ELSE "running"
    /\ Record(orders)
    /\ cash_read' = IF cash = initial_cash THEN cash_read ELSE cash # NoCash
    /\ UNCHANGED <<prog, SHORT_ENABLED, ethVars, fnVars, env, resting>>

EqDone(r, outcome, active, cash, calls, seen, orders, notes) ==
    EqFinish(r, outcome, active, cash, calls, seen, orders, notes, FALSE, TRUE)

EqRaise(r, outcome, active, cash, calls, seen, orders, notes) ==
    \E errNoteOk \in NoteResults :
        EqFinish(r, outcome, active, cash, calls, seen, orders, notes, TRUE, errNoteOk)

\* An iteration that ends with one notification from the body, of priority 0:
\* when send_notification raises, the ledger update that follows it in the
\* source (activeAfter, cashAfter) is not executed.
EqNotify(r, outcome, title, activeAfter, cashAfter, active, cash, calls, seen, orders) ==
    \E noteOk \in NoteResults :
        IF noteOk
        THEN EqDone(r, outcome, activeAfter, cashAfter, calls, seen, orders,
                    <<Note(title, 0, TRUE)>>)
        ELSE EqRaise(r, outcome, active, cash, calls, seen, orders,
                     <<Note(title, 0, FALSE)>>)

\* check_signal raised inside the try of the while loop.
EqSignalError ==
    /\ prog = "equities" /\ running = "running"
    /\ \E fetched \in BOOLEAN :
         LET r == IF fetched THEN Polled
                  ELSE [kind |-> "raise", sig |-> None, sym |-> None, id |-> 0,
                        processed |-> processed_gmail_message]
         IN /\ r.kind = "raise"
            /\ Consume(r)
            /\ EqRaise(r, "signal_error", active_trading_symbols, initial_cash,
                       <<>>, Unseen, <<>>, <<>>)

EqIdle ==
    /\ prog = "equities" /\ running = "running"
    /\ Polled.kind = "none"
    /\ Consume(Polled)
    /\ EqDone(Polled, "idle", active_trading_symbols, initial_cash, <<>>, Unseen,
              <<>>, <<>>)

\* SHORT and COVER while shorting is disabled.
EqShortDisabled ==
    /\ prog = "equities" /\ running = "running"
    /\ Polled.kind = "signal"
    /\ ShortingDenied(Polled.sig, SHORT_ENABLED)
    /\ Consume(Polled)
    /\ EqNotify(Polled, "denied_short_disabled", "Order Rejected: shorting is disabled",
                active_trading_symbols, initial_cash, active_trading_symbols,
                initial_cash, <<>>, Unseen, <<>>)

\* The branch of an admitted opening signal (BUY, SHORT): `cash` is
\* initial_cash after line 198, `calls` the reads made so far.
EqOpen(r, cash, calls, seen) ==
    LET active == active_trading_symbols IN
    IF r.sig = "BUY" /\ seen.balance <= 0
    THEN EqDone(r, "no_cash", active, cash, calls, seen, <<>>, <<>>)
    ELSE IF cash = NoCash
    THEN \* None * INVEST_PERCENTAGE raises TypeError
         EqRaise(r, "allocation_error", active, cash, calls, seen, <<>>, <<>>)
    ELSE
    LET qty == InvestQty(cash[1], seen.balance, seen.price)
        side == IF r.sig = "BUY" THEN "BUY" ELSE "SELL"
    IN
    IF qty <= 0
    THEN EqDone(r, "quantity_zero", active, cash, calls, seen, <<>>, <<>>)
    ELSE \E order \in {"ok", "raise"} :
           LET sent == <<Order(r.sym, side, qty * 1000, 0, order)>> IN
           IF order = "raise"
           THEN EqRaise(r, "order_error", active, cash, calls, seen, sent, <<>>)
           ELSE EqNotify(r, IF r.sig = "BUY" THEN "bought" ELSE "shorted",
                         IF r.sig = "BUY" THEN "BUY Signal" ELSE "SHORT Signal",
                         active \cup {r.sym}, cash, active, cash, calls, seen, sent)

\* The branch of an admitted closing signal (SELL, COVER).
EqClose(r, cash, calls, seen) ==
    LET active == active_trading_symbols IN
    \E position \in PositionReads(r.sym) :
      LET read == get_position_quantity(position)
          qty == IF r.sig = "COVER" /\ read < 0 THEN 0 - read ELSE read
          side == IF r.sig = "SELL" THEN "SELL" ELSE "BUY"
          calls2 == Append(calls, Call("get_open_position", position))
          removed == active \ {r.sym}
      IN
      IF qty <= 0
      THEN EqNotify(r, IF r.sig = "SELL" THEN "nothing_to_sell" ELSE "nothing_to_cover",
                    IF r.sig = "SELL" THEN "Nothing to sell" ELSE "Nothing to cover",
                    active, cash, active, cash, calls2, seen, <<>>)
      ELSE IF BelowMinimumQty(qty)
      THEN EqDone(r, "below_minimum", active, cash, calls2, seen, <<>>, <<>>)
      ELSE \E order \in {"ok", "raise"} :
             LET sent == <<Order(r.sym, side, qty, 0, order)>> IN
             IF order = "raise"
             THEN EqRaise(r, "order_error", active, cash, calls2, seen, sent, <<>>)
             ELSE EqNotify(r, IF r.sig = "SELL" THEN "sold" ELSE "covered",
                           IF r.sig = "SELL" THEN "SELL Signal" ELSE "COVER Signal",
                           removed, IF removed = {} THEN NoCash ELSE cash,
                           active, cash, calls2, seen, sent)

IsClosing(sig) == sig \in {"SELL", "COVER"}

\* Faulty variant: the balance is never stored.
StoreInitialCash_never(active, current_balance, cash) == cash

\* if len(active_trading_symbols) == 0: initial_cash = current_balance
StoreInitialCash(active, current_balance, cash) ==
    IF active = {} THEN <<current_balance>> ELSE cash

\* A signal that passed the shorting toggle: balance, price, admission,
\* pending orders, then the branch of the signal.
EqTrade ==
    /\ prog = "equities" /\ running = "running"
    /\ Polled.kind = "signal"
    /\ ~ShortingDenied(Polled.sig, SHORT_ENABLED)
    /\ Consume(Polled)
    /\ LET r == Polled
           active == active_trading_symbols
       IN
       \E balance \in CallResults(Balances) :
         LET calls1 == <<Call("get_account", balance)>> IN
         IF balance.raised
         THEN EqRaise(r, "balance_error", active, initial_cash, calls1, Unseen,
                      <<>>, <<>>)
         ELSE
         LET cash == StoreInitialCash(active, balance.v, initial_cash) IN
         \E price \in CallResults(EqPrices) :
           LET calls2 == Append(calls1, Call("get_stock_latest_quote", price)) IN
           IF price.raised
           THEN EqRaise(r, "price_error", active, cash, calls2, Unseen, <<>>, <<>>)
           ELSE
           \E admission \in (IF IsClosing(r.sig) THEN PositionReads(r.sym)
                             ELSE CallResults({0})) :
             LET calls3 == Append(calls2,
                                  Call(IF IsClosing(r.sig)
                                       THEN "get_open_position" ELSE "get_account",
                                       admission))
                 position_qty == get_position_quantity(admission)
                 seen == IF IsClosing(r.sig) THEN Seen(0, 0, position_qty, 0)
                         ELSE Seen(balance.v, price.v, 0, 0)
             IN
             IF ~IsClosing(r.sig) /\ admission.raised
             THEN EqRaise(r, "account_error", active, cash, calls3, seen, <<>>, <<>>)
             ELSE IF ~can_trade_symbol(r.sym, r.sig, active, position_qty)
             THEN EqNotify(r, "denied", DenialTitle(active),
                           active, cash, active, cash, calls3, seen, <<>>)
             ELSE
             \E open_orders \in CallResults(OpenOrders) :
               LET calls4 == Append(calls3, Call("get_orders", open_orders))
                   seen4 == [seen EXCEPT !.open_orders =
                                IF open_orders.raised THEN 0 ELSE open_orders.v]
               IN
               IF has_pending_orders(open_orders)
               THEN EqNotify(r, "denied_pending", "Order Rejected: pending order",
                             active, cash, active, cash, calls4, seen4, <<>>)
               ELSE IF IsClosing(r.sig)
               THEN EqClose(r, cash, calls4, seen4)
               ELSE EqOpen(r, cash, calls4, seen4)

EqNext == EqSignalError \/ EqIdle \/ EqShortDisabled \/ EqTrade

EthNext == EthSignalError \/ EthIdle \/ EthIgnored \/ EthBuy \/ EthSell

\* ------------------------------------------------------------ check_signal alone
\* A caller that only polls: the mailbox is unconstrained.  Messages of any
\* kind arrive while others are in the window, and leave it seen or unseen.
PollBodies ==
    {BuyBody("ETH.X"), SellBody("ETH.X"),
     <<"Alice", "bought", "10", "ETH.X", "shares", "at", "5">>,
     <<"Robot", "hello">>,
     <<"Robot", "bought", "at">>}

\* messages().list returns the MAX_MESSAGES latest messages.
PollArrive ==
    /\ prog = "poll"
    /\ nextId <= MaxSigMsgs
    /\ \E body \in PollBodies :
         inbox' = Append(IF Len(inbox) >= MAX_MESSAGES THEN Tail(inbox) ELSE inbox,
                         Msg(nextId, body))
    /\ nextId' = nextId + 1
    /\ UNCHANGED <<prog, running, processed_gmail_message, delivered, ethVars, eqVars,
                   fnVars, ghostVars, it>>

PollExpire ==
    /\ prog = "poll"
    /\ inbox # <<>>
    /\ inbox' = Tail(inbox)
    /\ UNCHANGED <<prog, running, nextId, processed_gmail_message, delivered, ethVars,
                   eqVars, fnVars, ghostVars, it>>

PollCheckSignal ==
    /\ prog = "poll"
    /\ \E fetched \in BOOLEAN :
         LET r == IF fetched THEN Polled
                  ELSE [kind |-> "raise", sig |-> None, sym |-> None, id |-> 0,
                        processed |-> processed_gmail_message]
         IN /\ Consume(r)
            /\ it' = Iteration(r.sig, r.sym, r.id,
                               IF r.kind = "raise" THEN "signal_error" ELSE "polled",
                               <<>>, Unseen, <<>>, <<>>, "no")
    /\ UNCHANGED <<prog, running, ethVars, eqVars, fnVars, ghostVars>>

PollNext == PollArrive \/ PollExpire \/ PollCheckSignal

Next == Arrive \/ Expire \/ EthNext \/ EqNext \/ PollNext

Spec == Init /\ [][Next]_vars

NextBook == Arrive \/ Expire \/ EthNext \/ EqNext

SpecBook == InitBook /\ [][NextBook]_vars


\* ------------------------------------------------------------ calculate_trade_size alone
\* calculate_trade_size is called once, on a queue of n lots and with a free
\* balance of v cents, for every n in 0..NUM_PARTS and v in 0..MaxBalance.
InitAlloc ==
    /\ prog = "calculate_trade_size"
    /\ running = "running"
    /\ inbox = <<>>
    /\ nextId = 1
    /\ processed_gmail_message = {}
    /\ delivered = [i \in {} |-> 0]
    /\ trade_queue \in {[i \in 1..n |-> Lot(200000, 10)] : n \in 0..NUM_PARTS}
    /\ tick_size \in TickSizes
    /\ active_trading_symbols = {}
    /\ initial_cash = NoCash
    /\ SHORT_ENABLED = TRUE
    /\ it = NoIteration
    /\ free_balance \in 0..MaxBalance
    /\ market_price = 0
    /\ allocation = <<>>
    /\ env = Environment("any", "may_fail")
    /\ InitGhost

AllocCall ==
    /\ prog = "calculate_trade_size"
    /\ allocation = <<>>
    /\ allocation' = <<calculate_trade_size(free_balance, trade_queue)>>
    /\ UNCHANGED <<prog, running, inbox, nextId, processed_gmail_message, delivered,
                   ethVars, eqVars, it, free_balance, market_price, ghostVars>>

NextAlloc == AllocCall

SpecAlloc == InitAlloc /\ [][NextAlloc]_vars

\* ------------------------------------------------------------ hyperliquid_btc_trading.py
\* size_btc of open_position: size_usd * LEVERAGE / market_price, cut to
\* 0.0001 BTC.
SizeBtc(size_usd, price) == MulDivFloor(size_usd * BTC_LEVERAGE, 10000, price)

\* The limit price of the entry order: 5% beyond the mid price, rounded up to
\* the tick for a buy and down for a sell.
EntryLimit(is_long, price, tick) ==
    IF is_long
    THEN round_to_tick_size(price, 105, 100, tick, "ROUND_UP")
    ELSE round_to_tick_size(price, 95, 100, tick, "ROUND_DOWN")

\* tp_price and sl_price: TAKE_PROFIT_PCT = 0.005 and STOP_LOSS_PCT = 0.003
\* off the mid price, then round_to_tick_size with its default ROUND_DOWN.
TriggerPrice(leg, is_long, price, tick) ==
    LET num == IF leg = "tp"
               THEN (IF is_long THEN 1005 ELSE 995)
               ELSE (IF is_long THEN 997 ELSE 1003)
    IN round_to_tick_size(price, num, 1000, tick, "ROUND_DOWN")

\* One call of exchange.order by open_position.  kind: "limit_ioc" for the
\* entry, "trigger_tp" / "trigger_sl" for the exits.
BtcOrder(side, qty, price, kind, reduce_only, result) ==
    [symbol |-> BTC_SYMBOL, side |-> side, qty |-> qty, limit |-> price,
     result |-> result, kind |-> kind, reduce_only |-> reduce_only]

\* The except clause of open_position: one notification of priority 1; when
\* it raises, the exception leaves open_position.
OpenPositionExcept(is_long, calls, orders, notes, accepted, errNoteOk) ==
    HandlerResult(<<>>, calls, orders,
                  Append(notes,
                         Note(IF is_long THEN "ERROR opening LONG position"
                              ELSE "ERROR opening SHORT position", 1, errNoteOk)),
                  accepted, ~errNoteOk)

\* Faulty variant: the exits are submitted before the entry's response is
\* examined.
open_position_exits_first(is_long, size_usd, tick, price, main, tp, sl, noteOk, errNoteOk) ==
    LET calls == <<Call("all_mids", price)>> IN
    IF price.raised
    THEN OpenPositionExcept(is_long, calls, <<>>, <<>>, FALSE, errNoteOk)
    ELSE
    LET size_btc == SizeBtc(size_usd, price.v)
        exit_side == IF is_long THEN "SELL" ELSE "BUY"
        entry == BtcOrder(IF is_long THEN "BUY" ELSE "SELL", size_btc,
                          EntryLimit(is_long, price.v, tick), "limit_ioc", FALSE, main)
        tp_order == BtcOrder(exit_side, size_btc,
                             TriggerPrice("tp", is_long, price.v, tick),
                             "trigger_tp", TRUE, tp)
        sl_order == BtcOrder(exit_side, size_btc,
                             TriggerPrice("sl", is_long, price.v, tick),
                             "trigger_sl", TRUE, sl)
        all == <<entry, tp_order, sl_order>>
    IN
    IF size_btc < BTC_MIN_SIZE
    THEN OpenPositionExcept(is_long, calls, <<>>, <<>>, FALSE, errNoteOk)
    ELSE IF main # "ok" \/ tp # "ok" \/ sl # "ok"
    THEN OpenPositionExcept(is_long, calls, all, <<>>, main = "ok", errNoteOk)
    ELSE IF noteOk
    THEN HandlerResult(<<>>, calls, all,
                       <<Note(IF is_long THEN "LONG OPENED" ELSE "SHORT OPENED", 0, TRUE)>>,
                       TRUE, FALSE)
    ELSE OpenPositionExcept(is_long, calls, all,
                            <<Note(IF is_long THEN "LONG OPENED" ELSE "SHORT OPENED",
                                   0, FALSE)>>,
                            TRUE, errNoteOk)

\* Faulty variant: a failed exit is submitted a second time.
open_position_retry(is_long, size_usd, tick, price, main, tp, sl, noteOk, errNoteOk) ==
    LET calls == <<Call("all_mids", price)>> IN
    IF price.raised
    THEN OpenPositionExcept(is_long, calls, <<>>, <<>>, FALSE, errNoteOk)
    ELSE
    LET size_btc == SizeBtc(size_usd, price.v)
        exit_side == IF is_long THEN "SELL" ELSE "BUY"
        entry == BtcOrder(IF is_long THEN "BUY" ELSE "SELL", size_btc,
                          EntryLimit(is_long, price.v, tick), "limit_ioc", FALSE, main)
        tp_order == BtcOrder(exit_side, size_btc,
                             TriggerPrice("tp", is_long, price.v, tick),
                             "trigger_tp", TRUE, tp)
        sl_order == BtcOrder(exit_side, size_btc,
                             TriggerPrice("sl", is_long, price.v, tick),
                             "trigger_sl", TRUE, sl)
    IN
    IF size_btc < BTC_MIN_SIZE
    THEN OpenPositionExcept(is_long, calls, <<>>, <<>>, FALSE, errNoteOk)
    ELSE IF main # "ok"
    THEN OpenPositionExcept(is_long, calls, <<entry>>, <<>>, FALSE, errNoteOk)
    ELSE IF tp # "ok"
    THEN OpenPositionExcept(is_long, calls, <<entry, tp_order, tp_order>>, <<>>, TRUE,
                            errNoteOk)
    ELSE IF sl # "ok"
    THEN OpenPositionExcept(is_long, calls, <<entry, tp_order, sl_order, sl_order>>,
                            <<>>, TRUE, errNoteOk)
    ELSE IF noteOk
    THEN HandlerResult(<<>>, calls, <<entry, tp_order, sl_order>>,
                       <<Note(IF is_long THEN "LONG OPENED" ELSE "SHORT OPENED", 0, TRUE)>>,
                       TRUE, FALSE)
    ELSE OpenPositionExcept(is_long, calls, <<entry, tp_order, sl_order>>,
                            <<Note(IF is_long THEN "LONG OPENED" ELSE "SHORT OPENED",
                                   0, FALSE)>>,
                            TRUE, errNoteOk)

\* open_position(is_long, size_usd, tick_size), over what the gateway answers
\* to the price read (price), to the entry order (main) and to the two exit
\* orders (tp, sl), and whether the notifications return.
open_position(is_long, size_usd, tick, price, main, tp, sl, noteOk, errNoteOk) ==
    LET calls == <<Call("all_mids", price)>> IN
    IF price.raised
    THEN OpenPositionExcept(is_long, calls, <<>>, <<>>, FALSE, errNoteOk)
    ELSE
    LET size_btc == SizeBtc(size_usd, price.v)
        exit_side == IF is_long THEN "SELL" ELSE "BUY"
        entry == BtcOrder(IF is_long THEN "BUY" ELSE "SELL", size_btc,
                          EntryLimit(is_long, price.v, tick), "limit_ioc", FALSE, main)
        tp_order == BtcOrder(exit_side, size_btc,
                             TriggerPrice("tp", is_long, price.v, tick),
                             "trigger_tp", TRUE, tp)
        sl_order == BtcOrder(exit_side, size_btc,
                             TriggerPrice("sl", is_long, price.v, tick),
                             "trigger_sl", TRUE, sl)
    IN
    IF size_btc < BTC_MIN_SIZE
    THEN OpenPositionExcept(is_long, calls, <<>>, <<>>, FALSE, errNoteOk)
    ELSE IF main # "ok"
    THEN OpenPositionExcept(is_long, calls, <<entry>>, <<>>, FALSE, errNoteOk)
    ELSE IF tp # "ok"
    THEN OpenPositionExcept(is_long, calls, <<entry, tp_order>>, <<>>, TRUE, errNoteOk)
    ELSE IF sl # "ok"
    THEN OpenPositionExcept(is_long, calls, <<entry, tp_order, sl_order>>, <<>>, TRUE,
                            errNoteOk)
    ELSE IF noteOk
    THEN HandlerResult(<<>>, calls, <<entry, tp_order, sl_order>>,
                       <<Note(IF is_long THEN "LONG OPENED" ELSE "SHORT OPENED", 0, TRUE)>>,
                       TRUE, FALSE)
    ELSE OpenPositionExcept(is_long, calls, <<entry, tp_order, sl_order>>,
                            <<Note(IF is_long THEN "LONG OPENED" ELSE "SHORT OPENED",
                                   0, FALSE)>>,
                            TRUE, errNoteOk)

\* ---- hyperliquid_btc_trading.main, one iteration of the while loop
\* What the gateway and the decision provider can answer.
BtcPositions == {0 - 50, 0, 50}
BtcAccountValues == {1000, 1001, 10000}
BtcPrices == {200000, 20000000}
BtcTickSizes == {100}
\* "none": no result or no decision in it; "hold": a decision that is neither
\* long nor short.
Decisions == {"none", "long", "short", "hold"}

\* Faulty variant: the position is not looked at.
HasPosition_never(current_size) == FALSE

\* current_size != Decimal("0")
HasPosition(current_size) == current_size # 0

\* What get_current_position can return: the position the exchange holds when
\* its book is kept, any of BtcPositions otherwise.
BtcPositionReads ==
    IF env.gateway = "book" THEN {broker[BTC_SYMBOL]} ELSE BtcPositions

\* The position reads after which the iteration goes on to a decision.
IdlePositions == {position \in BtcPositionReads : ~HasPosition(position)}

\* The exchange's book after the orders of one open_position call: an accepted
\* entry order is filled, an accepted trigger order rests on the book.
BtcFilled(book, orders) ==
    IF orders = <<>> \/ orders[1].result # "ok" THEN book
    ELSE [book EXCEPT ![BTC_SYMBOL] =
             IF orders[1].side = "BUY" THEN @ + orders[1].qty ELSE @ - orders[1].qty]

BtcResting(orders) ==
    {orders[k].kind : k \in {j \in 1..Len(orders) :
                                 /\ orders[j].kind \in {"trigger_tp", "trigger_sl"}
                                 /\ orders[j].result = "ok"}}

\* The end of an iteration whose body did h.  An exception that left the body
\* is caught by the except clause inside the loop, which notifies with
\* priority 1; when that notification raises, the outer except clause
\* notifies with priority 2 and main returns.
BtcFinish(decision, outcome, h, seen, loopNoteOk, fatalNoteOk) ==
    /\ it' = Iteration(decision, BTC_SYMBOL, 0, outcome, h.calls, seen, h.orders,
                       IF ~h.exc THEN h.notes
                       ELSE IF loopNoteOk
                       THEN Append(h.notes, Note("ERROR in trading loop", 1, TRUE))
                       ELSE h.notes \o <<Note("ERROR in trading loop", 1, FALSE),
                                          Note("FATAL BOT ERROR", 2, fatalNoteOk)>>,
                       IF ~h.exc THEN "no" ELSE IF loopNoteOk THEN "caught" ELSE "ended")
    /\ running' = IF ~h.exc \/ loopNoteOk THEN "running"
                  ELSE IF fatalNoteOk THEN "stopped" ELSE "crashed"
    /\ broker' = IF env.gateway = "book" THEN BtcFilled(broker, h.orders) ELSE broker
    /\ resting' = IF env.gateway = "book" THEN resting \cup BtcResting(h.orders)
                  ELSE resting
    /\ UNCHANGED <<prog, inbox, nextId, processed_gmail_message, delivered, ethVars,
                   eqVars, fnVars, env, cash_read>>

BtcEnd(decision, outcome, h, seen) ==
    IF h.exc
    THEN \E loopNoteOk \in NoteResults :
         \E fatalNoteOk \in (IF loopNoteOk THEN {TRUE} ELSE NoteResults) :
            BtcFinish(decision, outcome, h, seen, loopNoteOk, fatalNoteOk)
    ELSE BtcFinish(decision, outcome, h, seen, TRUE, TRUE)

\* The body did calls, submitted nothing and notified nothing.
BtcBody(calls, raised) == HandlerResult(<<>>, calls, <<>>, <<>>, FALSE, raised)

\* get_current_position raised.
BtcPositionError ==
    /\ prog = "btc" /\ running = "running"
    /\ BtcEnd(None, "position_error", BtcBody(<<Call("user_state", Raised)>>, TRUE),
              Unseen)

\* A position is open: the iteration does nothing more.
BtcHolding ==
    /\ prog = "btc" /\ running = "running"
    /\ \E position \in BtcPositionReads :
         /\ HasPosition(position)
         /\ BtcEnd(None, "holding",
                   BtcBody(<<Call("user_state", Returned(position))>>, FALSE),
                   Seen(0, 0, position, 0))

\* No position; build_and_run_trading_graph raised or gave no decision.
BtcNoDecision ==
    /\ prog = "btc" /\ running = "running"
    /\ \E position \in IdlePositions :
       \E result \in {Raised, Returned("none")} :
         BtcEnd(None, IF result.raised THEN "decision_error" ELSE "no_decision",
                BtcBody(<<Call("user_state", Returned(position)),
                          Call("build_and_run_trading_graph", result)>>,
                        result.raised),
                Seen(0, 0, position, 0))

\* No position and a decision; get_account_value raised, the account value
\* is not above $10, or the decision is neither long nor short.
BtcSkip ==
    /\ prog = "btc" /\ running = "running"
    /\ \E position \in IdlePositions :
       \E decision \in Decisions \ {"none"} :
       \E account_value \in CallResults(BtcAccountValues) :
         LET calls == <<Call("user_state", Returned(position)),
                        Call("build_and_run_trading_graph", Returned(decision)),
                        Call("user_state", account_value)>>
         IN
         /\ IF account_value.raised THEN TRUE
            ELSE account_value.v <= 1000 \/ decision = "hold"
         /\ BtcEnd(decision,
                   IF account_value.raised THEN "account_error"
                   ELSE IF account_value.v <= 1000 THEN "too_small"
                   ELSE "unknown_decision",
                   BtcBody(calls, account_value.raised),
                   IF account_value.raised THEN Seen(0, 0, position, 0)
                   ELSE Seen(account_value.v, 0, position, 0))

\* No position, a long or short decision and an account value above $10:
\* open_position is called with the whole account value.
BtcOpen ==
    /\ prog = "btc" /\ running = "running"
    /\ \E position \in IdlePositions :
       \E decision \in {"long", "short"} :
       \E account_value \in BtcAccountValues :
         /\ account_value > 1000
         /\ \E price \in CallResults(BtcPrices) :
            \E main \in OrderResults : \E tp \in OrderResults : \E sl \in OrderResults :
            \E noteOk \in NoteResults : \E errNoteOk \in NoteResults :
              LET h == open_position(decision = "long", account_value, tick_size, price,
                                     main, tp, sl, noteOk, errNoteOk)
              IN
              BtcEnd(decision,
                     IF h.accepted THEN "opened" ELSE "open_failed",
                     [h EXCEPT !.calls =
                         <<Call("user_state", Returned(position)),
                           Call("build_and_run_trading_graph", Returned(decision)),
                           Call("user_state", Returned(account_value))>> \o @],
                     Seen(account_value, IF price.raised THEN 0 ELSE price.v, position, 0))

InitBtc ==
    /\ InitCommon
    /\ prog = "btc"
    /\ tick_size \in BtcTickSizes
    /\ SHORT_ENABLED = TRUE
    /\ free_balance = 0
    /\ market_price = 0
    /\ allocation = <<>>
    /\ env = Environment("any", "may_fail")
    /\ InitGhost

NextBtc == BtcPositionError \/ BtcHolding \/ BtcNoDecision \/ BtcSkip \/ BtcOpen

SpecBtc == InitBtc /\ [][NextBtc]_vars

\* ---- the BTC loop against an exchange whose book is kept ----

\* The market reaches the trigger price of a resting exit order: the order
\* fills and closes the position (both exits are reduce-only orders for the
\* whole size).  Nothing in the program cancels the other exit order; the
\* exchange may keep it on the book or drop it.
BtcExitFills ==
    /\ prog = "btc" /\ env.gateway = "book" /\ running = "running"
    /\ HasPosition(broker[BTC_SYMBOL])
    /\ \E leg \in resting :
       \E others \in {resting \ {leg}, {}} :
         /\ broker' = [broker EXCEPT ![BTC_SYMBOL] = 0]
         /\ resting' = others
    /\ it' = NoIteration
    /\ UNCHANGED <<prog, running, inbox, nextId, processed_gmail_message, delivered,
                   ethVars, eqVars, fnVars, env, cash_read>>

InitBtcBook ==
    /\ InitCommon
    /\ prog = "btc"
    /\ tick_size \in BtcTickSizes
    /\ SHORT_ENABLED = TRUE
    /\ free_balance = 0
    /\ market_price = 0
    /\ allocation = <<>>
    /\ env = Environment("book", "may_fail")
    /\ broker = [sym \in {BTC_SYMBOL} |-> 0]
    /\ cash_read = FALSE
    /\ resting = {}

NextBtcBook == NextBtc \/ BtcExitFills

SpecBtcBook == InitBtcBook /\ [][NextBtcBook]_vars

\* ---- the three trading loops, one of them chosen at the start ----

InitAll == Init \/ InitBtc

NextAll == Next \/ NextBtc

SpecAll == InitAll /\ [][NextAll]_vars

\* ------------------------------------------------------------ the price and size functions alone
\* The limit, trigger and size computations are applied once to a mid price
\* of p, a tick of t and an amount of v, for every p in 1..MaxPrice, t in
\* PriceTicks and v in 0..MaxBalance (all in the smallest unit of the price).
PriceTicks == {1, 5}

InitPrices ==
    /\ prog = "prices"
    /\ running = "running"
    /\ inbox = <<>>
    /\ nextId = 1
    /\ processed_gmail_message = {}
    /\ delivered = [i \in {} |-> 0]
    /\ trade_queue = <<>>
    /\ tick_size \in PriceTicks
    /\ active_trading_symbols = {}
    /\ initial_cash = NoCash
    /\ SHORT_ENABLED = TRUE
    /\ it = NoIteration
    /\ free_balance \in 0..MaxBalance
    /\ market_price \in 1..MaxPrice
    /\ allocation = <<>>
    /\ env = Environment("any", "may_fail")
    /\ InitGhost

PriceCall ==
    /\ prog = "prices"
    /\ allocation = <<>>
    /\ allocation' =
         <<[eth_buy_limit |-> round_to_tick_size(market_price, 105, 100, tick_size,
                                                 "ROUND_UP"),
            eth_sell_limit |-> round_to_tick_size(market_price, 95, 100, tick_size,
                                                  "ROUND_DOWN"),
            btc_buy_limit |-> EntryLimit(TRUE, market_price, tick_size),
            btc_sell_limit |-> EntryLimit(FALSE, market_price, tick_size),
            long_tp |-> TriggerPrice("tp", TRUE, market_price, tick_size),
            long_sl |-> TriggerPrice("sl", TRUE, market_price, tick_size),
            short_tp |-> TriggerPrice("tp", FALSE, market_price, tick_size),
            short_sl |-> TriggerPrice("sl", FALSE, market_price, tick_size),
            size_eth |-> SizeEth(free_balance, market_price),
            size_btc |-> SizeBtc(free_balance, market_price)]>>
    /\ UNCHANGED <<prog, running, inbox, nextId, processed_gmail_message, delivered,
                   ethVars, eqVars, it, free_balance, market_price, ghostVars>>

NextPrices == PriceCall

SpecPrices == InitPrices /\ [][NextPrices]_vars

\* ------------------------------------------------------------ properties
\* A step in which check_signal returned a signal to the loop.
SignalStep == delivered' # delivered

EthSellStep ==
    prog = "eth" /\ SignalStep /\ it'.sig = "SELL" /\ it'.sym = EthAsset

EthBuyStep ==
    prog = "eth" /\ SignalStep /\ it'.sig = "BUY" /\ it'.sym = EthAsset

EqStep == prog = "equities" /\ SignalStep

\* Every notification of the iteration returned.
NotesOk(i) == \A k \in 1..Len(i.notes) : i.notes[k].ok

\* C1: the ETH queue is first-in-first-out.  Lots are inserted at the back, so
\* the front lot is the earliest inserted one; a close that the gateway
\* accepts removes the front lot, and after a close that fails the lot it
\* took is at the front again.  (Stated for iterations whose notifications
\* all returned.)
C1_FifoClose ==
    [][/\ (EthBuyStep =>
              \/ trade_queue' = trade_queue
              \/ /\ Len(trade_queue') = Len(trade_queue) + 1
                 /\ SubSeq(trade_queue', 1, Len(trade_queue)) = trade_queue)
       /\ (EthSellStep /\ trade_queue # <<>> /\ NotesOk(it') =>
              IF it'.outcome = "closed"
              THEN trade_queue' = Tail(trade_queue)
              ELSE /\ trade_queue' # <<>>
                   /\ Head(trade_queue') = Head(trade_queue))]_vars

\* C2: the equities ledger never holds more than MAX_CONCURRENT_SYMBOLS
\* symbols and the ETH queue never holds more than NUM_PARTS lots.
C2_Caps ==
    /\ Cardinality(active_trading_symbols) <= MAX_CONCURRENT_SYMBOLS
    /\ Len(trade_queue) <= NUM_PARTS

\* An opening signal arrived with the ETH queue full and was dropped.
C2_Witness ==
    /\ prog = "eth"
    /\ Len(trade_queue) = NUM_PARTS
    /\ it.sig = "BUY" /\ it.outcome = "max_positions"

\* C3: a close that fails (the price read raises, the order call raises, the
\* order is answered with a status other than ok or with an error among the
\* statuses) leaves trade_queue as it was before the call, whatever the queue
\* holds.  (Stated for iterations whose notifications all returned.)
C3_CloseRollback ==
    [][EthSellStep /\ trade_queue # <<>> /\ it'.outcome = "close_failed"
         /\ NotesOk(it')
       => trade_queue' = trade_queue]_vars

\* The free balance and the number of open lots of a call of
\* calculate_trade_size that has returned.
AllocReturned == prog = "calculate_trade_size" /\ allocation # <<>>

\* C4 as stated: allocation * (n + 1) <= free_balance, within one cent, for
\* every n < NUM_PARTS.
C4_AsStated ==
    AllocReturned /\ Len(trade_queue) < NUM_PARTS
    => allocation[1] * (Len(trade_queue) + 1) <= free_balance + 1

\* C4: for n open lots, n < NUM_PARTS, and a free balance v >= 0 the
\* allocation times the number of remaining slots NUM_PARTS - n never exceeds
\* v; so allocation * (n + 1) <= v holds when n + 1 <= NUM_PARTS - n.
C4_RemainingSlots ==
    AllocReturned /\ Len(trade_queue) < NUM_PARTS
    => /\ allocation[1] * (NUM_PARTS - Len(trade_queue)) <= free_balance
       /\ (Len(trade_queue) + 1 <= NUM_PARTS - Len(trade_queue)
              => allocation[1] * (Len(trade_queue) + 1) <= free_balance)

\* The last free slot is allocated the whole free balance.
C4_Witness ==
    /\ AllocReturned
    /\ Len(trade_queue) = NUM_PARTS - 1
    /\ free_balance > 1
    /\ allocation[1] = free_balance

\* C5: a closing signal (SELL, COVER) for a symbol that is not in the ledger
\* never leads to an order and leaves the ledger unchanged, and whenever the
\* iteration gets to a decision the decision is a denial; so the same signal
\* submitted again meets the same ledger and the same denial.  In the ETH
\* loop a SELL on an empty queue makes no gateway call, submits no order and
\* leaves the queue empty.
C5_NothingToClose ==
    [][/\ (EqStep /\ IsClosing(it'.sig) /\ it'.sym \notin active_trading_symbols =>
              /\ it'.orders = <<>>
              /\ active_trading_symbols' = active_trading_symbols
              /\ it'.outcome \in {"denied", "denied_short_disabled",
                                  "balance_error", "price_error"}
              /\ (Len(it'.calls) >= 3 => it'.outcome = "denied"))
       /\ (EthSellStep /\ trade_queue = <<>> =>
              /\ it'.outcome = "nothing_to_close"
              /\ it'.calls = <<>>
              /\ it'.orders = <<>>
              /\ trade_queue' = <<>>)]_vars

\* A closing signal was denied for a symbol the ledger does not hold although
\* the broker reports a position in it.
C5_Witness ==
    /\ prog = "equities"
    /\ IsClosing(it.sig)
    /\ it.sym \notin active_trading_symbols
    /\ it.seen.position # 0
    /\ it.outcome = "denied"
    /\ it.orders = <<>>

\* C6: a SELL or COVER leads to an order only if, at admission, the symbol is
\* in the ledger and the broker reports a position other than zero for it;
\* when admission finds otherwise the signal is denied, no order is submitted
\* and the ledger is unchanged.
C6_CloseAdmission ==
    [][EqStep /\ IsClosing(it'.sig) =>
         LET admissible == /\ it'.sym \in active_trading_symbols
                           /\ it'.seen.position # 0
         IN /\ (it'.orders # <<>> => admissible)
            /\ (Len(it'.calls) >= 3 /\ ~admissible =>
                   /\ it'.outcome = "denied"
                   /\ it'.orders = <<>>
                   /\ active_trading_symbols' = active_trading_symbols)]_vars

\* A SELL was admitted and its order submitted.
C6_Witness ==
    /\ prog = "equities"
    /\ it.sig = "SELL" /\ it.outcome = "sold"
    /\ it.seen.position # 0
    /\ it.orders # <<>>
    /\ it.sym \notin active_trading_symbols

MaxSymbolsNote == Note("Order Rejected: maximum allowed symbols", 0, TRUE)

IsPriority0(n) == n.priority = 0

\* The notifications of priority 0 of an iteration are exactly one, and it
\* reports the maximum-symbols cause.
OneMaxSymbolsNote(i) ==
    LET p0 == SelectSeq(i.notes, IsPriority0) IN
    Len(p0) = 1 /\ p0[1].title = MaxSymbolsNote.title

\* An opening signal met a full ledger and its balance, price and account
\* reads returned.
OpeningAtCap ==
    /\ EqStep
    /\ it'.sig \in {"BUY", "SHORT"}
    /\ Cardinality(active_trading_symbols) >= MAX_CONCURRENT_SYMBOLS
    /\ it'.outcome \notin {"balance_error", "price_error", "account_error"}

DeniedForMaxSymbols ==
    /\ it'.orders = <<>>
    /\ active_trading_symbols' = active_trading_symbols
    /\ OneMaxSymbolsNote(it')

\* C7 as stated: every BUY or SHORT that meets a full ledger is denied with
\* the maximum-symbols notification.
C7_AsStated == [][OpeningAtCap => DeniedForMaxSymbols]_vars

\* C7: a BUY, or a SHORT while shorting is enabled, that meets a full ledger
\* and whose balance, price and account reads return is denied: no order is
\* submitted, the ledger is unchanged and exactly one notification of
\* priority 0 is issued, reporting the maximum-symbols cause.
C7_DeniedAtCap ==
    [][OpeningAtCap /\ ~ShortingDenied(it'.sig, SHORT_ENABLED)
       => it'.outcome = "denied" /\ DeniedForMaxSymbols]_vars

\* A BUY for a symbol outside the ledger was denied at the cap.
C7_Witness ==
    /\ prog = "equities"
    /\ Cardinality(active_trading_symbols) = MAX_CONCURRENT_SYMBOLS
    /\ it.sig = "BUY" /\ it.sym \notin active_trading_symbols
    /\ it.outcome = "denied"
    /\ it.notes = <<MaxSymbolsNote>>

\* C8: while SHORT_ENABLED is false a SHORT or COVER signal is denied before
\* any gateway read (balance, price, position, account) and any order: the
\* iteration makes no gateway call and leaves the ledger and initial_cash
\* unchanged.
C8_ShortingDisabled ==
    [][EqStep /\ ~SHORT_ENABLED /\ it'.sig \in {"SHORT", "COVER"} =>
         /\ it'.outcome = "denied_short_disabled"
         /\ it'.calls = <<>>
         /\ it'.orders = <<>>
         /\ active_trading_symbols' = active_trading_symbols
         /\ initial_cash' = initial_cash]_vars

\* A COVER for a symbol of the ledger was denied by the toggle.
C8_Witness ==
    /\ prog = "equities" /\ ~SHORT_ENABLED
    /\ it.sig = "COVER" /\ it.sym \in active_trading_symbols
    /\ it.outcome = "denied_short_disabled"
    /\ it.calls = <<>>

IsPendingNote(n) == n.title = "Order Rejected: pending order" /\ n.priority = 0

\* C9: in an iteration of the equities loop in which the gateway reports at
\* least one open order, no order is submitted, the ledger is unchanged and
\* the pending-order rejection is notified.
C9_PendingOrders ==
    [][EqStep /\ it'.seen.open_orders > 0 =>
         /\ it'.outcome = "denied_pending"
         /\ it'.orders = <<>>
         /\ active_trading_symbols' = active_trading_symbols
         /\ Len(SelectSeq(it'.notes, IsPendingNote)) = 1]_vars

\* An admissible SELL was rejected because an order was open.
C9_Witness ==
    /\ prog = "equities"
    /\ it.sig = "SELL" /\ it.sym \in active_trading_symbols
    /\ it.seen.position # 0
    /\ it.seen.open_orders > 0
    /\ it.outcome = "denied_pending"

\* C10: check_signal returns a signal for a message id at most once, over any
\* sequence of polls and whatever the window holds.
C10_AtMostOnce == \A id \in DOMAIN delivered : delivered[id] <= 1

\* A poll returned no signal while the window held only messages whose signal
\* had been returned before.
C10_Witness ==
    /\ inbox # <<>>
    /\ \A k \in 1..Len(inbox) : inbox[k].id \in DOMAIN delivered
    /\ it.sig = None
    /\ it.outcome \in {"idle", "polled"}

\* ---- allocation
Min(a, b) == IF a <= b THEN a ELSE b

\* A BUY or SHORT order was submitted in this step of the equities loop.
OpeningOrderStep ==
    EqStep /\ it'.sig \in {"BUY", "SHORT"} /\ it'.orders # <<>>

\* The order is for the whole shares that min(base * INVEST_PERCENTAGE, cash)
\* buys at the quoted price (qty in thousandths of a share, money in cents).
InvestsMin(order, base, cash, price) ==
    LET shares == order.qty \div 1000
        scale == 100 * MAX_CONCURRENT_SYMBOLS
        amount == Min(base * 99, cash * scale)
    IN /\ order.qty = shares * 1000
       /\ shares * price * scale <= amount
       /\ amount < (shares + 1) * price * scale

\* The allocation rule of the equities loop, for whatever initial_cash holds.
AllocationRule ==
    /\ (OpeningOrderStep =>
          /\ initial_cash' # NoCash
          /\ InvestsMin(it'.orders[1], initial_cash'[1], it'.seen.balance,
                        it'.seen.price)
          /\ (active_trading_symbols = {} => initial_cash' = <<it'.seen.balance>>))
    /\ (EqStep /\ active_trading_symbols # {} /\ active_trading_symbols' # {}
          => initial_cash' = initial_cash)

\* C11 as stated: the base of every opening order is a cash balance read from
\* the account.
C11_AsStated == [][AllocationRule /\ (OpeningOrderStep => cash_read')]_vars

\* C11: every BUY or SHORT order is for the whole shares that
\* min(initial_cash * INVEST_PERCENTAGE, cash read in the iteration) buys;
\* initial_cash is the constant of the start until the ledger is first empty,
\* and after that the cash read in the iteration of the first opening trade
\* made on an empty ledger; it does not change while the ledger is not empty.
C11_Allocation ==
    [][/\ AllocationRule
       /\ (OpeningOrderStep /\ ~cash_read' => initial_cash' = <<INITIAL_CASH>>)]_vars

\* A later opening trade of a campaign: the base was read two million cents
\* at the campaign's first trade, and the order is capped by today's cash.
C11_Witness ==
    /\ prog = "equities"
    /\ it.sig \in {"BUY", "SHORT"} /\ it.orders # <<>>
    /\ cash_read /\ initial_cash = <<2000000>>
    /\ it.seen.balance = 25000
    /\ it.orders[1].qty = 2000
    /\ Cardinality(active_trading_symbols) >= 2

\* C12: with n open lots and a free balance of v cents, calculate_trade_size
\* returns v / (NUM_PARTS - n) cut down to whole cents when n < NUM_PARTS
\* (which is v * f / (1 - f * n) for f = 1 / NUM_PARTS), so v / NUM_PARTS cut
\* down when n = 0; the result never exceeds v; and it is 0 when
\* n >= NUM_PARTS.
C12_TradeSize ==
    AllocReturned =>
      LET n == Len(trade_queue)
          v == free_balance
          a == allocation[1]
      IN IF n >= NUM_PARTS THEN a = 0
         ELSE /\ a * (NUM_PARTS - n) <= v
              /\ v < (a + 1) * (NUM_PARTS - n)
              /\ (n = 0 => a * NUM_PARTS <= v /\ v < (a + 1) * NUM_PARTS)
              /\ a <= v

\* Twenty cents over seven remaining slots: two cents, the rest is cut.
C12_Witness ==
    /\ AllocReturned
    /\ Len(trade_queue) = 3
    /\ free_balance = 20
    /\ allocation = <<2>>

\* An opening signal met an allocation below the minimum: in the ETH loop
\* size_usd <= 1; in the equities loop no cash, or a quantity of zero shares.
BelowMinimumStep ==
    \/ EthBuyStep /\ it'.outcome = "too_small"
    \/ EqStep /\ it'.outcome \in {"no_cash", "quantity_zero"}

\* C13: an opening signal whose allocation is below the minimum is dropped
\* without an order and without a change of the ledger, and a notification
\* of the low balance is sent.
C13_LowBalance ==
    [][BelowMinimumStep =>
         /\ it'.orders = <<>>
         /\ trade_queue' = trade_queue
         /\ active_trading_symbols' = active_trading_symbols
         /\ it'.notes # <<>>]_vars

\* C14: an iteration that consumed a signal (a BUY or SELL for the asset in
\* the ETH loop, any signal in the equities loop) ends with at least one
\* notification issued.
C14_NoSilentSignal ==
    [][EthBuyStep \/ EthSellStep \/ EqStep => it'.notes # <<>>]_vars

\* C15: whatever the signal source, the gateway and the notification channel
\* raise, the exception is caught inside the while loop and the loop goes on:
\* main never ends of its own.
C15_LoopGoesOn == prog \in {"eth", "equities"} => running = "running"

\* The gateway accepted the order of the iteration.
OrderAccepted(i) == i.orders # <<>> /\ i.orders[1].result = "ok"

\* The ledger of the equities loop after an iteration whose notifications
\* return: the symbol of an accepted order is added (BUY, SHORT) or removed
\* (SELL, COVER).
LedgerAfter(active, i) ==
    IF ~OrderAccepted(i) THEN active
    ELSE IF IsClosing(i.sig) THEN active \ {i.sym}
    ELSE active \cup {i.sym}

\* C16: the outcome of the send_notification calls of an iteration decides
\* nothing: the ledger after the iteration and whether the loop goes on are
\* what they are when every notification returns.  In the equities loop the
\* ledger follows the accepted order and the loop goes on.  In the ETH loop
\* (for a queue whose front lot has no equal behind it) an accepted BUY adds
\* one lot, an accepted SELL removes the front lot, anything else leaves the
\* queue, and the loop goes on unless the account read raised.
C16_NotifyNotInControl ==
    [][/\ (EqStep =>
             /\ active_trading_symbols' = LedgerAfter(active_trading_symbols, it')
             /\ running' = "running")
       /\ (EthBuyStep =>
             /\ Len(trade_queue') =
                  Len(trade_queue) + (IF OrderAccepted(it') THEN 1 ELSE 0)
             /\ (running' = "running" \/ it'.outcome = "account_error"))
       /\ (EthSellStep /\ trade_queue # <<>>
             /\ ~InQueue(Head(trade_queue), Tail(trade_queue)) =>
             /\ trade_queue' = IF OrderAccepted(it') THEN Tail(trade_queue)
                               ELSE trade_queue
             /\ running' = "running")]_vars

\* C17: the ledger gains a lot or a symbol only in an iteration whose entry
\* order the gateway accepted; when the entry order raised, was answered with
\* an error, or was not submitted, the iteration leaves the ledger as it was.
C17_GainOnlyWhenAccepted ==
    [][/\ (prog = "eth" /\ Len(trade_queue') > Len(trade_queue) =>
             it'.sig = "BUY" /\ OrderAccepted(it'))
       /\ (EthBuyStep /\ ~OrderAccepted(it') => trade_queue' = trade_queue)
       /\ (prog = "equities"
             /\ ~(active_trading_symbols' \subseteq active_trading_symbols) =>
             it'.sig \in {"BUY", "SHORT"} /\ OrderAccepted(it'))
       /\ (EqStep /\ it'.sig \in {"BUY", "SHORT"} /\ ~OrderAccepted(it') =>
             active_trading_symbols' = active_trading_symbols)]_vars

\* The gateway answered the entry order with an error among the statuses;
\* the queue is still empty and the loop goes on.
C17_Witness ==
    /\ prog = "eth"
    /\ it.sig = "BUY" /\ it.outcome = "open_failed"
    /\ it.orders # <<>> /\ it.orders[1].result = "status_error"
    /\ trade_queue = <<>>
    /\ running = "running"

\* Sum of the lot sizes held in a queue of lots.
RECURSIVE LedgerSize(_)
LedgerSize(queue) ==
    IF queue = <<>> THEN 0
    ELSE Head(queue).size_eth + LedgerSize(Tail(queue))

\* C18: with the loop as the only trader and every accepted order filled in
\* full, after every iteration of the ETH loop, whatever the gateway and the
\* notification calls answered, the lot sizes in trade_queue add up to the
\* ETH position the broker holds.
C18_LedgerMatchesBroker ==
    prog = "eth" /\ env.gateway = "book" =>
        LedgerSize(trade_queue) = broker[SYMBOL]

\* C19: the quantity of the close order a SELL submits is the smaller of the
\* oldest lot's size and the position the broker holds, so it never exceeds
\* that position.
C19_CloseWithinPosition ==
    [][EthSellStep /\ env.gateway = "book" /\ it'.orders # <<>> =>
         /\ it'.orders[1].qty = Min(Head(trade_queue).size_eth, broker[SYMBOL])
         /\ it'.orders[1].qty <= broker[SYMBOL]]_vars

\* C20: with the loop as the only trader, every accepted order filled in full
\* and a ledger that starts in agreement with the broker, every symbol in
\* active_trading_symbols has a non-zero position at the broker after any
\* sequence of BUY, SELL, SHORT and COVER signals.
C20_ActiveSymbolsHeld ==
    prog = "equities" /\ env.gateway = "book" =>
        \A sym \in active_trading_symbols : broker[sym] # 0

\* ---- the order in which check_signal hands out signals
\* A message that carries a signal: a robot message whose text parses.
IsSignalMessage(msg) == RobotIn(msg.body) /\ ParseMessage(msg.body).kind = "signal"

\* The positions in the window of the signal messages not yet processed.
UnseenSignals(window, processed) ==
    {k \in 1..Len(window) : window[k].id \notin processed /\ IsSignalMessage(window[k])}

OldestUnseen(window, processed) ==
    LET unseen == UnseenSignals(window, processed) IN
    window[CHOOSE k \in unseen : \A j \in unseen : k <= j]

\* A call of check_signal, by a caller that only polls, that fetched the
\* window.
PollCall ==
    /\ prog = "poll"
    /\ inbox' = inbox
    /\ it' # NoIteration
    /\ ~(it'.outcome = "signal_error" /\ it'.id = 0)

\* The call returned the signal of message m, marked m and nothing newer, and
\* every signal returned before came from an older message.
ReturnsOnly(m) ==
    /\ it'.outcome = "polled"
    /\ it'.id = m.id
    /\ it'.sig = ParseMessage(m.body).sig
    /\ it'.sym = ParseMessage(m.body).sym
    /\ DOMAIN delivered' = DOMAIN delivered \cup {m.id}
    /\ \A id \in DOMAIN delivered : delivered'[id] = delivered[id] /\ id < m.id
    /\ \A k \in 1..Len(inbox) :
         inbox[k].id > m.id =>
            (inbox[k].id \in processed_gmail_message'
               <=> inbox[k].id \in processed_gmail_message)

\* C21: when several unseen signal messages are in the window, a call of
\* check_signal returns the signal of the oldest of them only and leaves all
\* newer messages unprocessed, so that the signals come out one per call in
\* chronological order.
C21_OldestFirst ==
    [][PollCall /\ Cardinality(UnseenSignals(inbox, processed_gmail_message)) >= 2 =>
         ReturnsOnly(OldestUnseen(inbox, processed_gmail_message))]_vars

\* ---- the BTC loop
IsExit(order) == order.kind \in {"trigger_tp", "trigger_sl"}

\* C22: a take-profit or stop-loss order is submitted only after the entry
\* order of the same open_position call was accepted without error, never
\* before it and never when it failed; it is a reduce-only trigger order on
\* the side opposite to the entry and of the size of the entry.
C22_ExitsAfterEntry ==
    prog = "btc" =>
        /\ it.orders # <<>> =>
              /\ it.orders[1].kind = "limit_ioc"
              /\ it.orders[1].result # "ok" => Len(it.orders) = 1
        /\ \A k \in 1..Len(it.orders) :
              IsExit(it.orders[k]) =>
                 /\ k > 1
                 /\ it.orders[1].result = "ok"
                 /\ it.orders[k].reduce_only
                 /\ it.orders[k].symbol = it.orders[1].symbol
                 /\ it.orders[k].side # it.orders[1].side
                 /\ it.orders[k].side \in {"BUY", "SELL"}
                 /\ it.orders[k].qty = it.orders[1].qty

\* A short entry was accepted and both exits were submitted after it.
C22_Witness ==
    /\ prog = "btc"
    /\ it.sig = "short"
    /\ Len(it.orders) = 3
    /\ it.orders[1].side = "SELL" /\ it.orders[1].result = "ok"
    /\ it.orders[2].kind = "trigger_tp" /\ it.orders[3].kind = "trigger_sl"

\* An exit order of the iteration was answered with an error.
BracketFailed(i) ==
    \E k \in 1..Len(i.orders) : IsExit(i.orders[k]) /\ i.orders[k].result # "ok"

CountKind(i, kind) == Cardinality({k \in 1..Len(i.orders) : i.orders[k].kind = kind})

\* C23: when the take-profit or the stop-loss submission raises, is not ok or
\* carries an error status, open_position ends as a failure: it sends a
\* notification of priority 1 and none that reports an opened position, the
\* failed submission is its last order (nothing is retried, nothing closes or
\* undoes the entry), and the entry stays as accepted.
C23_BracketFailure ==
    prog = "btc" /\ BracketFailed(it) =>
        /\ \E n \in 1..Len(it.notes) :
              /\ it.notes[n].priority = 1
              /\ it.notes[n].title \in {"ERROR opening LONG position",
                                        "ERROR opening SHORT position"}
        /\ \A n \in 1..Len(it.notes) :
              it.notes[n].title \notin {"LONG OPENED", "SHORT OPENED"}
        /\ it.orders[Len(it.orders)].result # "ok"
        /\ \A k \in 1..(Len(it.orders) - 1) : it.orders[k].result = "ok"
        /\ CountKind(it, "limit_ioc") = 1
        /\ CountKind(it, "trigger_tp") = 1
        /\ CountKind(it, "trigger_sl") <= 1
        /\ it.orders[1].kind = "limit_ioc" /\ it.orders[1].result = "ok"

\* The take-profit was accepted and the stop-loss was answered with an error.
C23_Witness ==
    /\ prog = "btc"
    /\ Len(it.orders) = 3
    /\ it.orders[2].result = "ok"
    /\ it.orders[3].kind = "trigger_sl" /\ it.orders[3].result = "status_error"
    /\ running = "running"

\* ---- prices and sizes
\* The price functions were applied to market_price, tick_size and
\* free_balance.
PricesReturned == prog = "prices" /\ allocation # <<>>

IsMultiple(x, step) == x % step = 0

\* C24: for every mid price p and tick size, a long entry gets a take-profit
\* trigger strictly above p and a stop-loss trigger strictly below p, a short
\* entry gets a take-profit strictly below p and a stop-loss strictly above
\* p, and every trigger is a multiple of the tick size.
C24_TriggerSides ==
    PricesReturned =>
        LET r == allocation[1] IN
        /\ r.long_tp > market_price /\ r.long_sl < market_price
        /\ r.short_tp < market_price /\ r.short_sl > market_price
        /\ \A x \in {r.long_tp, r.long_sl, r.short_tp, r.short_sl} :
              IsMultiple(x, tick_size)

\* b is the smallest multiple of the tick that is >= 1.05 * p.
SmallestMultipleAbove(b, p, tick) ==
    /\ IsMultiple(b, tick)
    /\ 100 * b >= 105 * p
    /\ 100 * (b - tick) < 105 * p

\* s is the largest multiple of the tick that is <= 0.95 * p.
LargestMultipleBelow(s, p, tick) ==
    /\ IsMultiple(s, tick)
    /\ 100 * s <= 95 * p
    /\ 100 * (s + tick) > 95 * p

\* C25: for every price p and tick size t, the limit price of a buy entry is
\* the smallest multiple of t that is >= 1.05 * p, and the limit price of a
\* sell (a close or a short entry) is the largest multiple of t that is
\* <= 0.95 * p.
C25_LimitPrices ==
    PricesReturned =>
        LET r == allocation[1] IN
        /\ SmallestMultipleAbove(r.eth_buy_limit, market_price, tick_size)
        /\ SmallestMultipleAbove(r.btc_buy_limit, market_price, tick_size)
        /\ LargestMultipleBelow(r.eth_sell_limit, market_price, tick_size)
        /\ LargestMultipleBelow(r.btc_sell_limit, market_price, tick_size)

\* Neither 1.05 * p nor 0.95 * p is a multiple of the tick: both limits are
\* moved, the buy up and the sell down.
C25_Witness ==
    /\ PricesReturned
    /\ tick_size = 5 /\ market_price = 7
    /\ allocation[1].eth_buy_limit = 10 /\ allocation[1].btc_buy_limit = 10
    /\ allocation[1].eth_sell_limit = 5 /\ allocation[1].btc_sell_limit = 5

\* size is the largest number of quantity steps (of 0.0001) whose value at
\* the price does not exceed the amount times the leverage.
LargestSizeWithin(size, size_usd, leverage, price) ==
    /\ size >= 0
    /\ size * price <= size_usd * leverage * 10000
    /\ (size + 1) * price > size_usd * leverage * 10000

\* C26: the size of a futures entry is the largest multiple of the quantity
\* step 0.0001 that is <= size_usd * LEVERAGE / price, so that size * price
\* never exceeds size_usd * LEVERAGE.
C26_SizeFloor ==
    PricesReturned =>
        /\ LargestSizeWithin(allocation[1].size_eth, free_balance, LEVERAGE, market_price)
        /\ LargestSizeWithin(allocation[1].size_btc, free_balance, BTC_LEVERAGE,
                             market_price)

\* 7 * 20 / 300 = 0.4666...: the size is cut to 0.4666, not rounded to 0.4667.
C26_Witness ==
    /\ PricesReturned
    /\ free_balance = 7 /\ market_price = 300
    /\ allocation[1].size_eth = 4666
    /\ allocation[1].size_btc = 2333

\* ---- the equities loop on an empty ledger
\* A BUY signal on an empty ledger reached the allocation: cash and price were
\* read, the signal was admitted and no order was pending.
BuyOnEmptyStep ==
    /\ EqStep /\ it'.sig = "BUY"
    /\ active_trading_symbols = {}
    /\ it'.outcome \in {"bought", "order_error", "quantity_zero"}

\* The number of quantity steps (step thousandths of a share each) that the
\* amount c * INVEST_PERCENTAGE buys at price p, cut down; INVEST_PERCENTAGE
\* is 0.99 / 9 = 11 / 100.
StepsBought(c, p, step) == MulDivFloor(c, 11 * (1000 \div step), 100 * p)

\* The iteration ordered the quantity that c * INVEST_PERCENTAGE buys, cut
\* down to the step; with less than one step it ordered nothing.
OrdersSteps(i, step) ==
    LET n == StepsBought(i.seen.balance, i.seen.price, step) IN
    IF n >= 1
    THEN /\ Len(i.orders) = 1
         /\ i.orders[1].side = "BUY" /\ i.orders[1].symbol = i.sym
         /\ i.orders[1].qty = n * step
    ELSE i.orders = <<>>

\* C27 as stated: the quantity is cut down to the share step 0.01.
C27_AsStated ==
    [][BuyOnEmptyStep => initial_cash' = <<it'.seen.balance>> /\ OrdersSteps(it', 10)]_vars

\* C27: for a BUY on an empty ledger with cash c and price p, the amount
\* allocated is c * INVEST_PERCENTAGE (initial_cash becomes c) and the order
\* quantity is that amount divided by p and cut down to a whole number of
\* shares; when it buys less than one share, no order is submitted.
C27_WholeShares ==
    [][BuyOnEmptyStep => initial_cash' = <<it'.seen.balance>> /\ OrdersSteps(it', 1000)]_vars

\* The first BUY after the ledger emptied: cash of $20,000 at a price of $100
\* allocates $2,200 and buys 22 shares.
C27_Witness ==
    /\ prog = "equities"
    /\ it.sig = "BUY" /\ it.outcome = "bought"
    /\ active_trading_symbols = {it.sym}
    /\ initial_cash = <<2000000>> /\ it.seen.balance = 2000000 /\ it.seen.price = 10000
    /\ it.orders[1].qty = 22000

\* ---- closing signals of the equities loop
Abs(x) == IF x < 0 THEN 0 - x ELSE x

PositionReadsReturned(i) ==
    \A k \in 1..Len(i.calls) :
        i.calls[k].call = "get_open_position" => ~i.calls[k].raised

\* A SELL on a long position, or a COVER on a short position, was admitted (the
\* symbol is in the ledger, the position is not zero, no order is pending) and
\* every read of the position returned.
AdmittedCloseStep ==
    /\ EqStep /\ IsClosing(it'.sig)
    /\ it'.outcome \in {"sold", "covered", "order_error", "nothing_to_sell",
                        "nothing_to_cover", "below_minimum"}
    /\ PositionReadsReturned(it')
    /\ IF it'.sig = "SELL" THEN broker[it'.sym] > 0 ELSE broker[it'.sym] < 0

\* C28: an admitted COVER with a broker position of -q submits exactly one
\* BUY order of quantity q, and an admitted SELL with a position of q exactly
\* one SELL order of quantity q; when the order is accepted the symbol leaves
\* the ledger, and when it is not the symbol stays.
C28_CloseWholePosition ==
    [][AdmittedCloseStep =>
         /\ Len(it'.orders) = 1
         /\ it'.orders[1].symbol = it'.sym
         /\ it'.orders[1].side = (IF it'.sig = "SELL" THEN "SELL" ELSE "BUY")
         /\ it'.orders[1].qty = Abs(broker[it'.sym])
         /\ (it'.orders[1].result = "ok" => it'.sym \notin active_trading_symbols')
         /\ (it'.orders[1].result # "ok" => it'.sym \in active_trading_symbols')]_vars

\* C30: a closing signal never causes an order that makes the broker's
\* position larger in absolute size: a SELL signal submits a sell only when
\* the position is positive, and a COVER signal a buy only when it is
\* negative.
C30_ClosesOnlyReduce ==
    [][EqStep /\ IsClosing(it'.sig) /\ it'.orders # <<>> /\ env.gateway = "book" =>
         /\ (it'.sig = "SELL" =>
               it'.orders[1].side = "SELL" /\ broker[it'.sym] > 0)
         /\ (it'.sig = "COVER" =>
               it'.orders[1].side = "BUY" /\ broker[it'.sym] < 0)
         /\ Abs(broker'[it'.sym]) <= Abs(broker[it'.sym])]_vars

\* ---- the decision provider of the BTC loop
ProviderCalls(i) ==
    {k \in 1..Len(i.calls) : i.calls[k].call = "build_and_run_trading_graph"}

\* The first call of the iteration read the position, and it returned.
PositionRead(i) ==
    i.calls # <<>> /\ i.calls[1].call = "user_state" /\ ~i.calls[1].raised

\* C29: in every iteration of the BTC loop the decision provider is invoked
\* at most once, and only after the position was read as zero; an iteration
\* in which the position read is not zero, or in which reading it failed,
\* submits no order.
C29_DecideOnlyWhenFlat ==
    prog = "btc" /\ it # NoIteration =>
        /\ Cardinality(ProviderCalls(it)) <= 1
        /\ \A k \in ProviderCalls(it) :
              k = 2 /\ PositionRead(it) /\ it.seen.position = 0
        /\ (~PositionRead(it) \/ it.seen.position # 0 =>
              it.orders = <<>> /\ ProviderCalls(it) = {})

\* The broker reported a short position: no decision was asked for and no
\* order submitted.
C29_Witness ==
    /\ prog = "btc"
    /\ it.outcome = "holding"
    /\ it.seen.position < 0
    /\ ProviderCalls(it) = {} /\ it.orders = <<>>

\* C31: whenever the entry order of the BTC loop is accepted, a stop-loss
\* trigger order is submitted in the same open_position call, whether or not
\* the take-profit submission succeeded.
C31_StopLossAttempted ==
    prog = "btc" /\ it.orders # <<>> /\ it.orders[1].result = "ok" =>
        \E k \in 1..Len(it.orders) : it.orders[k].kind = "trigger_sl"

\* A step of the BTC loop in which an entry order is submitted.
BtcEntryStep ==
    /\ prog = "btc" /\ it' # NoIteration
    /\ it' # it \/ broker' # broker \/ resting' # resting
    /\ it'.orders # <<>> /\ it'.orders[1].kind = "limit_ioc"

\* C32: the BTC loop never submits a new entry order while a take-profit or
\* stop-loss trigger order of an earlier entry is still resting at the
\* exchange, so at most one order lifecycle is in flight.
C32_NoEntryWhileExitRests == [][BtcEntryStep => resting = {}]_vars

\* C33: the notification of an equities signal denied at admission names the
\* actual cause: a denied SELL or COVER is reported as no position / not
\* actively trading whatever the size of the ledger, and the maximum-symbols
\* message is sent only for a BUY or a SHORT.
C33_DenialNamesCause ==
    prog = "equities" /\ it.outcome = "denied" =>
        \A k \in 1..Len(it.notes) :
            it.notes[k].priority = 0 =>
                it.notes[k].title = IF IsClosing(it.sig) THEN "Order Rejected: no position"
                                    ELSE MaxSymbolsNote.title

\* The iteration asked the gateway for the open orders and the query raised.
OpenOrdersQueryRaised(i) ==
    \E k \in 1..Len(i.calls) : i.calls[k] = Call("get_orders", Raised)

\* C34: when the query for open orders raises, the equities loop takes the
\* state as pending: the iteration submits no order.
C34_FailsClosed ==
    prog = "equities" /\ OpenOrdersQueryRaised(it) => it.orders = <<>>

\* The window holds a robot message on which the symbol extraction raises
\* and, newer than it, a well-formed signal message not yet processed.
SignalBehindMalformed(window, processed) ==
    \E j \in 1..Len(window) :
        /\ RobotIn(window[j].body)
        /\ ParseMessage(window[j].body).kind = "raise"
        /\ \E k \in UnseenSignals(window, processed) : k > j

\* C35: a robot message on which the symbol extraction raises does not block
\* the source: while it is in the window, a call of check_signal still
\* returns the signal of a newer well-formed message.
C35_MalformedDoesNotBlock ==
    [][PollCall /\ SignalBehindMalformed(inbox, processed_gmail_message)
         => it'.outcome = "polled" /\ it'.sig # None]_vars

\* C36: in the equities loop initial_cash is None only while
\* active_trading_symbols is empty, and initial_cash * INVEST_PERCENTAGE is
\* never computed on None for a BUY or a SHORT, whatever the signals, the
\* closes that empty the ledger and the aborted iterations before.
C36_InitialCashDefined ==
    prog = "equities" =>
        /\ (initial_cash = NoCash => active_trading_symbols = {})
        /\ it.outcome # "allocation_error"

\* The ledger was emptied by closes, and the BUY that followed allocated
\* from the balance stored in its own iteration.
C36_Witness ==
    /\ prog = "equities"
    /\ it.sig = "BUY" /\ it.outcome = "bought"
    /\ active_trading_symbols = {it.sym}
    /\ cash_read /\ initial_cash = <<it.seen.balance>>

\* C37: the ETH loop changes trade_queue only by appending one lot at the
\* tail after an accepted entry order or by removing the head lot after an
\* accepted close order; the lots that stay keep their values and their
\* order, and a signal for another asset or a SHORT or COVER signal leaves
\* the queue as it was.
C37_QueueDiscipline ==
    [][prog = "eth" /\ trade_queue' # trade_queue =>
         \/ /\ EthBuyStep /\ OrderAccepted(it')
            /\ \E lot \in {trade_queue'[Len(trade_queue')]} :
                  trade_queue' = Append(trade_queue, lot)
         \/ /\ EthSellStep /\ OrderAccepted(it')
            /\ trade_queue # <<>> /\ trade_queue' = Tail(trade_queue)]_vars

\* An iteration in which the quantity of an entry order was computed and is
\* below the minimum: under 0.001 in the two futures loops, under 0.01 of a
\* share in the equities loop.
EntryBelowMinimum ==
    \/ /\ EthBuyStep /\ it'.outcome \in {"opened", "open_failed"}
       /\ it'.seen.price > 0
       /\ SizeEth(calculate_trade_size(it'.seen.balance, trade_queue),
                  it'.seen.price) < 10
    \/ /\ prog = "btc" /\ it'.outcome \in {"opened", "open_failed"}
       /\ it'.seen.price > 0
       /\ SizeBtc(it'.seen.balance, it'.seen.price) < 10
    \/ /\ EqStep /\ it'.sig \in {"BUY", "SHORT"}
       /\ it'.outcome \in {"quantity_zero", "order_error", "bought", "shorted"}
       /\ initial_cash' # NoCash
       /\ InvestQty(initial_cash'[1], it'.seen.balance, it'.seen.price) * 100 < 1

HasPriority1Note(i) == \E k \in 1..Len(i.notes) : i.notes[k].priority = 1

\* C38: an entry whose computed quantity is below the minimum is rejected
\* locally: the iteration submits no order to the gateway, trade_queue and
\* active_trading_symbols stay as they were, and in the two futures loops an
\* error notification of priority 1 is issued.
C38_BelowMinimumRejected ==
    [][EntryBelowMinimum =>
         /\ it'.orders = <<>>
         /\ trade_queue' = trade_queue
         /\ active_trading_symbols' = active_trading_symbols
         /\ (prog \in {"eth", "btc"} => HasPriority1Note(it'))]_vars

\* The ETH loop computed an order of less than 0.001 ETH and refused it.
C38_Witness ==
    /\ prog = "eth" /\ it.sig = "BUY" /\ it.outcome = "open_failed"
    /\ it.seen.price > 0
    /\ SizeEth(calculate_trade_size(it.seen.balance, trade_queue), it.seen.price) < 10
    /\ it.orders = <<>>
    /\ HasPriority1Note(it)

====
